---- MODULE Spec2Model ----
(***************************************************************************)
(* Model of the travel-chat edge function (conversation-stage orchestrator, *)
(* extraction parser, recommendation enricher).                             *)
(*                                                                          *)
(* Text is a sequence of characters.  Three lexemes are kept atomic:        *)
(*   "E" = |||EXTRACT|||    "N" = |||END|||    "J" = one JSON document      *)
(* "J" is a document that decodes to an object; "Jnull", "J5", "Js" and     *)
(* "J[]" are the documents null, 5, "s" and [].                             *)
(* Every other element is a single character.                               *)
(***************************************************************************)
EXTENDS Integers, Sequences, FiniteSets, TLC

\* ---------------------------------------------------------------- bounds
\* most keys one decoded extraction object carries (sequential turns)
MaxKeys == 2
\* most keys one decoded extraction object carries (overlapping turns)
MaxRaceKeys == 1
\* longest model reply given to the extraction step on its own
MaxReplyLen == 6
\* most place mentions in a text given to the enricher on its own
MaxMentions == 2

\* ---------------------------------------------------------------- JS values
Undefined == "undefined"
Null == "null"
EmptyStr == ""
Falsy == {Undefined, Null, EmptyStr, "false", "#0"}

Truthy(v) == v \notin Falsy

\* a || b
Or(a, b) == IF Truthy(a) THEN a ELSE b

\* Number.prototype.toString / String.prototype.toString: numbers are
\* written "#digits", strings are the digits themselves
toString(v) == IF v = "#3000" THEN "3000" ELSE IF v = "#0" THEN "0" ELSE v

\* ---------------------------------------------------------------- record
PrefKeys ==
  {"origin", "destination", "weather_preference", "activities", "budget",
   "budget_allocation", "dates", "date_flexibility", "confirmed"}

\* preferences JSONB DEFAULT '{}'
EmptyObject == [k \in PrefKeys |-> Undefined]

\* a freshly inserted conversations row
NewConversation ==
  [destination |-> Null, budget |-> Null, start_date |-> Null,
   preferences |-> EmptyObject]

\* Object.keys(o).length
KeyCount(o) == Cardinality({k \in PrefKeys : o[k] # Undefined})

\* ---------------------------------------------------------------- text
IsSpace(c) == c \in {" ", "\n"}

\* String.prototype.trim
Trim(s) ==
  LET keep == {i \in 1..Len(s) : ~IsSpace(s[i])}
  IN  IF keep = {} THEN <<>>
      ELSE LET lo == CHOOSE i \in keep : \A j \in keep : i <= j
               hi == CHOOSE i \in keep : \A j \in keep : j <= i
           IN  SubSeq(s, lo, hi)

\* aiResponse.match(/\|\|\|EXTRACT\|\|\|(.*?)\|\|\|END\|\|\|/s): the leftmost
\* opening delimiter that has a closing delimiter after it, up to the nearest
\* closing delimiter.  <<0, 0>> when there is no match.
ExtractMatch(s) ==
  LET opens == {i \in 1..Len(s) : s[i] = "E" /\ \E j \in (i+1)..Len(s) : s[j] = "N"}
  IN  IF opens = {} THEN <<0, 0>>
      ELSE LET b == CHOOSE i \in opens : \A j \in opens : i <= j
               ends == {j \in (b+1)..Len(s) : s[j] = "N"}
               e == CHOOSE i \in ends : \A j \in ends : i <= j
           IN  <<b, e>>

\* the documents JSON.parse decodes to something that is not an object with
\* members: null, a number, a string, an array
NonObjectDocs == {"Jnull", "J5", "Js", "J[]"}

\* JSON.parse(extractMatch[1].trim()) succeeds: the payload is one document
ParseOk(s) ==
  LET m == ExtractMatch(s)
  IN  /\ m[1] # 0
      /\ \E doc \in {"J"} \cup NonObjectDocs :
           Trim(SubSeq(s, m[1] + 1, m[2] - 1)) = <<doc>>

\* the document of the block of a reply whose block decodes
Document(s) ==
  LET m == ExtractMatch(s)
  IN  Trim(SubSeq(s, m[1] + 1, m[2] - 1))[1]

\* a bug that cuts the reply at an opening delimiter that is never closed
StripExtractUnclosed(s) ==
  LET m == ExtractMatch(s)
      opens == {i \in 1..Len(s) : s[i] = "E"}
  IN  IF ParseOk(s)
      THEN Trim(SubSeq(s, 1, m[1] - 1) \o SubSeq(s, m[2] + 1, Len(s)))
      ELSE IF m[1] = 0 /\ opens # {}
           THEN Trim(SubSeq(s, 1, (CHOOSE i \in opens : \A j \in opens : i <= j) - 1))
           ELSE s

\* the user-facing text after the extraction step
StripExtract(s) ==
  LET m == ExtractMatch(s)
  IN  IF ParseOk(s)
      THEN Trim(SubSeq(s, 1, m[1] - 1) \o SubSeq(s, m[2] + 1, Len(s)))
      ELSE s

\* extractedData: the decoded object d when the block decodes, {} otherwise
ExtractedData(s, d) == IF ParseOk(s) THEN d ELSE EmptyObject

\* ---------------------------------------------------------------- enricher
\* "V" is a trigger verb of placePattern (the two characters "Do"); the
\* pattern is case-insensitive and has no word boundary, so "V" may also sit
\* inside a name ("ElDOrado").  "A" is the upper-case form of "a".
Punct == {"-", ":", ".", ";", ","}

Lower(c) == IF c = "A" THEN "a" ELSE c

\* String.prototype.toLowerCase
toLowerCase(s) == [i \in 1..Len(s) |-> Lower(s[i])]

\* UTF-16 length of one element
Width(c) ==
  CASE c = "V" -> 2
    [] c \in {"%20", "%0A", "%5B", "%5D", "%3A", "pin"} -> 3
    [] c \in {"https", "//www"} -> 5
    [] c = "google" -> 6
    [] c = "com/maps/search/" -> 16
    [] c = "E" -> 13
    [] c = "N" -> 9
    [] c \in {"J", "J[]"} -> 2
    [] c = "Jnull" -> 4
    [] c = "Js" -> 3
    [] OTHER -> 1

RECURSIVE length(_)
\* String.prototype.length
length(s) == IF s = <<>> THEN 0 ELSE Width(Head(s)) + length(Tail(s))

SetMin(S) == CHOOSE i \in S : \A j \in S : i <= j

\* s.includes(t)
includes(s, t) == \E i \in 1..(Len(s) - Len(t) + 1) : SubSeq(s, i, i + Len(t) - 1) = t

\* s.indexOf(t), 1-based; 0 when absent
indexOf(s, t) ==
  LET at == {i \in 1..(Len(s) - Len(t) + 1) : SubSeq(s, i, i + Len(t) - 1) = t}
  IN  IF at = {} THEN 0 ELSE SetMin(at)

\* s.replace(t, u) with a string pattern: the first occurrence only
replace(s, t, u) ==
  LET i == indexOf(s, t)
  IN  IF i = 0 THEN s
      ELSE SubSeq(s, 1, i - 1) \o u \o SubSeq(s, i + Len(t), Len(s))

\* s.split(sep)[0]
SplitFirst(s, sep) ==
  LET i == indexOf(s, sep)
  IN  IF i = 0 THEN s ELSE SubSeq(s, 1, i - 1)

RECURSIVE CollapseSpaces(_)
\* s.replace(/\s+/g, " ")
CollapseSpaces(s) ==
  IF s = <<>> THEN <<>>
  ELSE IF IsSpace(Head(s))
       THEN IF Len(s) > 1 /\ IsSpace(s[2])
            THEN CollapseSpaces(Tail(s))
            ELSE <<" ">> \o CollapseSpaces(Tail(s))
       ELSE <<Head(s)>> \o CollapseSpaces(Tail(s))

\* last index of the terminator (?:\s*[-:.;,]|$|\n) tried at k (k - 1 for an
\* empty $ match); -1 when no alternative matches there
TermEnd(s, k) ==
  LET n == Len(s)
      solid == {m \in k..n : ~IsSpace(s[m])}
  IN  IF solid # {} /\ s[SetMin(solid)] \in Punct THEN SetMin(solid)
      ELSE IF k = n + 1 THEN n
      ELSE IF s[k] = "\n" THEN k
      ELSE -1

\* the leftmost match of placePattern in s at or after p:
\* verb, \s+ (greedy), lazy capture, terminator.  start = 0 when none.
MatchFrom(s, p) ==
  LET n == Len(s)
      verbs == {i \in p..(n - 1) : s[i] = "V" /\ IsSpace(s[i + 1])}
  IN  IF verbs = {} THEN [start |-> 0, from |-> 0, to |-> 0, end |-> 0]
      ELSE LET i == SetMin(verbs)
               j == SetMin({m \in (i + 1)..(n + 1) : m = n + 1 \/ ~IsSpace(s[m])})
               k == SetMin({m \in j..(n + 1) : TermEnd(s, m) # -1})
           IN  [start |-> i, from |-> j, to |-> k - 1, end |-> TermEnd(s, k)]

RECURSIVE matchAll(_, _)
\* response.matchAll(placePattern), as a sequence of matches
matchAll(s, p) ==
  LET m == MatchFrom(s, p)
  IN  IF m.start = 0 THEN <<>> ELSE <<m>> \o matchAll(s, m.end + 1)

\* encodeURIComponent, element by element
EncodeChar(c) ==
  CASE c = " " -> "%20"
    [] c = "\n" -> "%0A"
    [] c = "[" -> "%5B"
    [] c = "]" -> "%5D"
    [] c = ":" -> "%3A"
    [] OTHER -> c

encodeURIComponent(s) == [i \in 1..Len(s) |-> EncodeChar(s[i])]

UrlPrefix == <<"https", ":", "//www", ".", "google", ".", "com/maps/search/">>

createGoogleMapsUrl(placeName, destination) ==
  UrlPrefix \o encodeURIComponent(placeName \o <<" ">> \o destination)

\* `\n<pin> [${placeName}](${mapsUrl})`
LinkText(placeName, mapsUrl) ==
  <<"\n", "pin", " ", "[">> \o placeName \o <<"]", "(">> \o mapsUrl \o <<")">>

\* placeName.replace(/\s+/g, " ").split(" - ")[0].split(" (")[0].trim()
NormalizePlace(placeName) ==
  Trim(SplitFirst(SplitFirst(CollapseSpaces(placeName), <<" ", "-", " ">>),
                  <<" ", "(">>))

\* one iteration of the for-loop: st = [text, seen, links, at]
\*   text  = enhancedResponse, seen = processedPlaces,
\*   links = the place names a link was appended for, in order (observer)
\*   at    = for each of them, the last index in response of its match[0]
\*           (observer)
EnrichStep(response, destination, m, st) ==
  LET raw == Trim(SubSeq(response, m.from, m.to))
  IN  IF raw # <<>> /\ length(raw) > 2 /\ toLowerCase(raw) \notin st.seen
      THEN LET placeName == NormalizePlace(raw)
               mapsUrl == createGoogleMapsUrl(placeName, destination)
               original == SubSeq(response, m.start, m.end)
           IN  IF length(placeName) > 2
               THEN [seen |-> st.seen \cup {toLowerCase(placeName)},
                     text |-> IF ~includes(st.text, mapsUrl)
                              THEN replace(st.text, original,
                                           original \o LinkText(placeName, mapsUrl))
                              ELSE st.text,
                     links |-> IF ~includes(st.text, mapsUrl)
                               THEN Append(st.links, placeName)
                               ELSE st.links,
                     at |-> IF ~includes(st.text, mapsUrl)
                            THEN Append(st.at, m.end)
                            ELSE st.at]
               ELSE st
      ELSE st

RECURSIVE EnrichLoop(_, _, _, _)
EnrichLoop(response, destination, ms, st) ==
  IF ms = <<>> THEN st
  ELSE EnrichLoop(response, destination, Tail(ms),
                  EnrichStep(response, destination, Head(ms), st))

EnrichRun(response, destination) ==
  EnrichLoop(response, destination, matchAll(response, 1),
             [text |-> response, seen |-> {}, links |-> <<>>, at |-> <<>>])

parseRecommendationsWithLinks(response, destination) ==
  EnrichRun(response, destination).text

\* ---------------------------------------------------------------- travel provider
\* A decoded JSON body, and what a client method hands back: shape "null" is
\* null, "noData" an object without data, "noList" data without the list the
\* caller reads (hotels, rooms), "list" data with that list in `data`.
NullBody == [shape |-> "null", data |-> <<>>]

NoData == [shape |-> "noData", data |-> <<>>]

NoList == [shape |-> "noList", data |-> <<>>]

\* how one request can end: a 2xx answer with a JSON body, a non-2xx status,
\* a body response.json() rejects, fetch rejecting
Transports == {"json", "non2xx", "notJson", "network"}

\* a bug that lets a rejected fetch escape
_makeApiCallRethrows(transport, body) ==
  [threw |-> transport = "network",
   value |-> IF transport = "json" THEN body ELSE NullBody]

\* _makeApiCall: the decoded body, or null on !response.ok and on anything
\* caught
_makeApiCall(transport, body) ==
  [threw |-> FALSE,
   value |-> IF transport = "json" THEN body ELSE NullBody]

\* String.prototype.toUpperCase on a search type
toUpperCase(v) == IF v = "city" THEN "CITY" ELSE v

\* DEST_ID, DESTINATION, SEARCH_TYPE of a new BookingComAPI
NewClient == [DEST_ID |-> EmptyStr, DESTINATION |-> EmptyStr, SEARCH_TYPE |-> EmptyStr]

\* a bug that carries on with a default id when the result list is empty
searchDestinationDefaultsId(cl, cityDataDict) ==
  IF cityDataDict.shape = "list" /\ Len(cityDataDict.data) > 0
  THEN LET firstResult == cityDataDict.data[1]
       IN  IF firstResult.shape = "null"
           THEN [threw |-> TRUE, ret |-> FALSE, client |-> cl]
           ELSE [threw |-> FALSE, ret |-> TRUE,
                 client |->
                   [DEST_ID |-> firstResult.dest_id,
                    DESTINATION |-> firstResult.label,
                    SEARCH_TYPE |->
                      IF firstResult.search_type \in {Undefined, Null} THEN EmptyStr
                      ELSE toUpperCase(firstResult.search_type)]]
  ELSE [threw |-> FALSE, ret |-> TRUE,
        client |-> [DEST_ID |-> "-1", DESTINATION |-> EmptyStr, SEARCH_TYPE |-> "CITY"]]

\* BookingComAPI.searchDestination on the answer of its request: whether it
\* threw, what it returned, the instance fields afterwards
searchDestination(cl, cityDataDict) ==
  IF cityDataDict.shape = "list" /\ Len(cityDataDict.data) > 0
  THEN LET firstResult == cityDataDict.data[1]
       IN  IF firstResult.shape = "null"
           THEN [threw |-> TRUE, ret |-> FALSE, client |-> cl]
           ELSE [threw |-> FALSE, ret |-> TRUE,
                 client |->
                   [DEST_ID |-> firstResult.dest_id,
                    DESTINATION |-> firstResult.label,
                    SEARCH_TYPE |->
                      IF firstResult.search_type \in {Undefined, Null} THEN EmptyStr
                      ELSE toUpperCase(firstResult.search_type)]]
  ELSE [threw |-> FALSE, ret |-> FALSE, client |-> cl]

\* !this.DEST_ID || !this.SEARCH_TYPE
IdMissing(cl) == ~Truthy(cl.DEST_ID) \/ ~Truthy(cl.SEARCH_TYPE)

\* getFilters, searchHotels and getHotelDetails of the client hand back the
\* body when it is an object with data, null otherwise
DictOrNull(dict) == IF dict.shape \in {"null", "noData"} THEN NullBody ELSE dict

\* what a client method's return value counts as
Returned(threw, found) ==
  IF threw THEN "threw" ELSE IF found THEN "found" ELSE "notfound"

\* one entry of the request log
Call(endpoint, hotelId, transport, body, returned) ==
  [endpoint |-> endpoint, hotel_id |-> hotelId, transport |-> transport,
   shape |-> IF transport = "json" THEN body.shape ELSE "null",
   count |-> IF transport = "json" THEN Len(body.data) ELSE 0,
   returned |-> returned]

\* searchHotels not called; searchHotels returned null
NoSearch ==
  [shape |-> "none", destination |-> EmptyStr, hotel_name |-> EmptyStr,
   price |-> EmptyStr, currency |-> EmptyStr, booking_hotel_id |-> EmptyStr,
   room_photo_url |-> EmptyStr]

NoHotel == [NoSearch EXCEPT !.shape = "null"]

\* a value `v ?? d`
Coalesce(v, d) == IF v \in {Undefined, Null} THEN d ELSE v

\* a bug that takes the last hotel of the page
FirstHotelIsLast(hotels) == hotels[Len(hotels)]

\* hotelSearchResult.data.hotels[0]
FirstHotel(hotels) == hotels[1]

\* resultData after step 7: the fields taken from the first hotel
FromSearch(cl, firstHotel) ==
  [shape |-> "result",
   destination |-> cl.DESTINATION,
   hotel_name |-> Coalesce(firstHotel.name, "N/A"),
   price |-> Coalesce(firstHotel.value, "#0"),
   currency |-> Coalesce(firstHotel.currency, "N/A"),
   booking_hotel_id |-> firstHotel.hotel_id,
   room_photo_url |-> "N/A"]

RECURSIVE FirstPhoto(_)
\* the loop over the first room's photos: the first url_max1280 that is set;
\* a null photo throws inside the inner try and leaves the default
FirstPhoto(photos) ==
  IF photos = <<>> THEN "N/A"
  ELSE IF Head(photos) = Null THEN "N/A"
  ELSE IF Truthy(Head(photos)) THEN Head(photos)
  ELSE FirstPhoto(Tail(photos))

\* resultData.room_photo_url after step 8
RoomPhoto(detailsResult) ==
  IF detailsResult.shape = "list" THEN FirstPhoto(detailsResult.data) ELSE "N/A"

\* Number.prototype.toFixed exists on numbers only
IsNumber(v) == v \in {"#0", "#120"}

\* a BookingComFlightsAPI instance as constructed
NewFlightClient == [ORIGIN_ID |-> EmptyStr, DESTINATION_ID |-> EmptyStr]

\* searchHotels of the first-transition variant not called
NoArgs == [shape |-> "none"]

\* ---------------------------------------------------------------- state
VARIABLES
  conversation,   \* the conversations row of this conversation id
  pc,             \* per turn: "idle", "model" (row read, model called), "done"
  snap,           \* per turn: the row as read at the start of the turn
  reply,          \* per turn: data.choices[0].message.content
  extractedData,  \* per turn: the decoded extraction object
  visibleText,    \* per turn: aiResponse after the extraction step
  aiResponse,     \* per turn: the text returned to the caller
  status,         \* per turn: HTTP status of the response, 0 while running
  modelStatus,    \* per turn: HTTP status of the model provider's answer, 0 when
                  \* the model was not called
  env,            \* which secrets Deno.env holds
  client,         \* the fields a BookingComAPI instance sets dynamically
  calls,          \* the provider requests the running searchHotels issued
  hotelSearchResult, \* what apiClient.searchHotels() returned
  hotelData,      \* what searchHotels returned to the handler
  prompt,         \* the accommodation part of systemPrompt: "none", "hotel",
                  \* "fallback"
  history,        \* for each turn begun, the stored record and whether the turn
                  \* invoked searchHotels (observer)
  input,          \* text given to a pure text transform
  dest,           \* destination given to the enricher
  once,           \* the transform applied once
  twice,          \* the transform applied to its own output
  links,          \* place names the first enricher call appended a link for
  step,           \* "off"; "reply", "stripped", "restripped"; "text", "enriched",
                  \* "reenriched"; "response", "parsed"
  flightClient,   \* the fields a BookingComFlightsAPI instance sets dynamically
  flightCalls,    \* the calls made on that instance, in order (observer)
  airportAnswer,  \* what _makeApiCall handed to the latest searchAirport
  messages,       \* the messages of the request body (gateway variant)
  searchArgs,     \* the arguments the first-transition variant passed to
                  \* searchHotels
  suggestions,    \* the rows of travel_suggestions
  chat,           \* the state of a ChatInterface: input, loading, conversationId,
                  \* messages (the roles of the messages shown)
  inFlight        \* the sendMessage calls awaiting their travel-chat reply, by
                  \* what started them

vars ==
  <<conversation, pc, snap, reply, extractedData, visibleText, aiResponse,
    status, modelStatus, env, client, calls, hotelSearchResult, hotelData,
    prompt, history, input, dest, once, twice, links, step, flightClient,
    flightCalls, airportAnswer, messages, searchArgs, suggestions, chat, inFlight>>

hotelVars == <<env, client, calls, hotelSearchResult, hotelData, prompt, history>>

turnVars ==
  <<conversation, pc, snap, reply, extractedData, visibleText, aiResponse, status,
    modelStatus, hotelVars>>

textVars == <<input, dest, once, twice, links, step>>

flightVars == <<flightClient, flightCalls, airportAnswer>>

uiVars == <<chat, inFlight>>

variantVars == <<messages, searchArgs, suggestions>>

Turns == {1, 2}

\* ---------------------------------------------------------------- stage
\* the has* values the handler derives from the row it read
hasOrigin(c) == c.preferences["origin"]
hasDestination(c) == Or(c.destination, c.preferences["destination"])
hasWeatherPreference(c) == c.preferences["weather_preference"]
hasActivities(c) == c.preferences["activities"]
hasBudget(c) == Or(c.budget, c.preferences["budget"])
hasBudgetAllocation(c) == c.preferences["budget_allocation"]
hasDates(c) == Or(c.start_date, c.preferences["dates"])
hasFlexibility(c) == c.preferences["date_flexibility"]
hasConfirmed(c) == c.preferences["confirmed"]

\* a bug that leaves out the origin test at the head of the chain
SelectStageNoOrigin(c) ==
  IF ~Truthy(hasDestination(c)) THEN "NeedDestination"
  ELSE IF ~Truthy(hasWeatherPreference(c)) THEN "NeedWeather"
  ELSE IF ~Truthy(hasActivities(c)) THEN "NeedActivities"
  ELSE IF ~Truthy(hasBudget(c)) THEN "NeedBudget"
  ELSE IF ~Truthy(hasBudgetAllocation(c)) THEN "NeedBudgetAllocation"
  ELSE IF ~Truthy(hasDates(c)) THEN "NeedDates"
  ELSE IF ~Truthy(hasFlexibility(c)) THEN "NeedFlexibility"
  ELSE IF ~Truthy(hasConfirmed(c)) THEN "NeedConfirmation"
  ELSE "Ready"

\* the if / else-if chain that picks the stage block of systemPrompt
SelectStage(c) ==
  IF ~Truthy(hasOrigin(c)) THEN "NeedOrigin"
  ELSE IF ~Truthy(hasDestination(c)) THEN "NeedDestination"
  ELSE IF ~Truthy(hasWeatherPreference(c)) THEN "NeedWeather"
  ELSE IF ~Truthy(hasActivities(c)) THEN "NeedActivities"
  ELSE IF ~Truthy(hasBudget(c)) THEN "NeedBudget"
  ELSE IF ~Truthy(hasBudgetAllocation(c)) THEN "NeedBudgetAllocation"
  ELSE IF ~Truthy(hasDates(c)) THEN "NeedDates"
  ELSE IF ~Truthy(hasFlexibility(c)) THEN "NeedFlexibility"
  ELSE IF ~Truthy(hasConfirmed(c)) THEN "NeedConfirmation"
  ELSE "Ready"

\* ---------------------------------------------------------------- merge
\* the preference keys written on a truthy extracted value
TruthyKeys ==
  {"origin", "weather_preference", "activities", "budget_allocation", "dates",
   "date_flexibility"}

\* updates: the top-level columns the turn sets (Undefined = key absent)
Updates(d) ==
  [destination |-> IF Truthy(d["destination"]) THEN d["destination"] ELSE Undefined,
   budget |-> IF Truthy(d["budget"]) THEN toString(d["budget"]) ELSE Undefined]

\* newPreferences = { ...conversationData } with the extracted keys applied
NewPreferences(conversationData, d) ==
  [k \in PrefKeys |->
     IF k \in TruthyKeys /\ Truthy(d[k]) THEN d[k]
     ELSE IF k = "confirmed" /\ d[k] # Undefined THEN d[k]
     ELSE conversationData[k]]

\* the guard of the update
ShouldUpdate(updates, newPreferences, conversationData) ==
  \/ updates.destination # Undefined
  \/ updates.budget # Undefined
  \/ KeyCount(newPreferences) > KeyCount(conversationData)

\* .update({ ...updates, preferences: newPreferences }) applied to the row
UpdateRow(row, updates, newPreferences) ==
  [destination |-> IF updates.destination # Undefined THEN updates.destination
                   ELSE row.destination,
   budget |-> IF updates.budget # Undefined THEN updates.budget ELSE row.budget,
   start_date |-> row.start_date,
   preferences |-> newPreferences]

\* the guard of the enrichment step
AtItinerary(c) ==
  /\ Truthy(hasDestination(c))
  /\ Truthy(hasActivities(c))
  /\ Truthy(hasBudget(c))
  /\ Truthy(hasDates(c))
  /\ Truthy(hasFlexibility(c))

\* a stored string as text
AsText(v) == <<v>>

\* ---------------------------------------------------------------- inputs
\* the values one key of a decoded extraction object may carry
ExtValues(k) ==
  CASE k = "confirmed" -> {Null, "false", "true"}
    [] k = "origin" -> {Null, EmptyStr, "London", "Berlin"}
    [] k = "destination" -> {Null, "v"}
    [] k = "budget" -> {"#3000"}
    [] OTHER -> {"v"}

\* the decoded objects with at most n keys
Extractions(n) ==
  UNION {
    {[k \in PrefKeys |-> IF k \in S THEN f[k] ELSE Undefined] :
       f \in {g \in [S -> {Null, EmptyStr, "false", "true", "London", "Berlin", "#3000", "v"}] :
                \A k \in S : g[k] \in ExtValues(k)}} :
    S \in {T \in SUBSET PrefKeys : Cardinality(T) <= n}}

TurnExtractions == Extractions(MaxKeys)

RaceExtractions == Extractions(MaxRaceKeys)

Itinerary == <<"V", " ", "a", "b", "c", ".">>

\* model replies: no block; a block that decodes to an object, to null, to
\* a number, to a string, to an array; a block that does not decode;
\* an opening delimiter that is never closed; a closing delimiter before the
\* opening one
Replies ==
  {Itinerary \o <<"\n">>,
   Itinerary \o <<"\n", "E", "J", "N">>,
   Itinerary \o <<"\n", "E", "Jnull", "N">>,
   Itinerary \o <<"\n", "E", "J5", "N">>,
   Itinerary \o <<"\n", "E", "Js", "N">>,
   Itinerary \o <<"\n", "E", "J[]", "N">>,
   Itinerary \o <<"\n", "E", "a", "N">>,
   Itinerary \o <<"\n", "E", "J">>,
   <<"N">> \o Itinerary \o <<"E", "J", "\n">>}

\* ---------------------------------------------------------------- turn
TurnInit ==
  /\ conversation = NewConversation
  /\ pc = [t \in Turns |-> "idle"]
  /\ snap = [t \in Turns |-> NewConversation]
  /\ reply = [t \in Turns |-> <<>>]
  /\ extractedData = [t \in Turns |-> EmptyObject]
  /\ visibleText = [t \in Turns |-> <<>>]
  /\ aiResponse = [t \in Turns |-> <<>>]
  /\ status = [t \in Turns |-> 0]
  /\ modelStatus = [t \in Turns |-> 0]

\* every secret configured, no hotel search running
HotelOff ==
  /\ env = [OPENAI_API_KEY |-> TRUE, BOOKING_API_HOST |-> TRUE, BOOKING_API_KEY |-> TRUE]
  /\ client = NewClient
  /\ calls = <<>>
  /\ hotelSearchResult = NullBody
  /\ hotelData = NoSearch
  /\ prompt = "none"
  /\ history = <<>>

TextOff ==
  /\ input = <<>>
  /\ dest = <<>>
  /\ once = <<>>
  /\ twice = <<>>
  /\ links = <<>>
  /\ step = "off"

\* no flight client in use
FlightOff ==
  /\ flightClient = NewFlightClient
  /\ flightCalls = <<>>
  /\ airportAnswer = NullBody

\* useState initial values of ChatInterface
NewChat ==
  [input |-> <<>>, loading |-> FALSE, conversationId |-> Null, messages |-> <<>>]

\* no chat client in use
ChatOff ==
  /\ chat = NewChat
  /\ inFlight = <<>>

\* no request of another orchestrator variant in progress
VariantOff ==
  /\ messages = <<>>
  /\ searchArgs = NoArgs
  /\ suggestions = <<>>

\* the request arrives: the row is read, the prompt built, the model called
ReadConversation(t) ==
  /\ pc[t] = "idle"
  /\ pc' = [pc EXCEPT ![t] = "model"]
  /\ snap' = [snap EXCEPT ![t] = conversation]
  /\ reply' = [reply EXCEPT ![t] = <<>>]
  /\ extractedData' = [extractedData EXCEPT ![t] = EmptyObject]
  /\ visibleText' = [visibleText EXCEPT ![t] = <<>>]
  /\ aiResponse' = [aiResponse EXCEPT ![t] = <<>>]
  /\ status' = [status EXCEPT ![t] = 0]
  /\ modelStatus' = [modelStatus EXCEPT ![t] = 0]
  /\ UNCHANGED <<conversation, hotelVars, textVars, flightVars, uiVars, variantVars>>

\* the statuses a failed model call answers with
ModelErrors == {429, 402, 401, 500}

\* the status of the handler's response to a failed model call: 429 and 401
\* are passed on, anything else throws and the outer catch answers 500
ErrorStatus(code) ==
  IF code = 429 THEN 429
  ELSE IF code = 401 THEN 401
  ELSE 500

\* a bug that stores the columns of the record read before the model call is
\* known to have failed
ModelFailsAfterWrite(t) ==
  /\ pc[t] = "model"
  /\ \E code \in ModelErrors :
       /\ modelStatus' = [modelStatus EXCEPT ![t] = code]
       /\ status' = [status EXCEPT ![t] = ErrorStatus(code)]
  /\ conversation' = [conversation EXCEPT !.destination = Null]
  /\ pc' = [pc EXCEPT ![t] = "done"]
  /\ UNCHANGED <<snap, reply, extractedData, visibleText, aiResponse,
                 hotelVars, textVars, flightVars, uiVars, variantVars>>

\* !response.ok: the error response is returned; nothing is written
ModelFails(t) ==
  /\ pc[t] = "model"
  /\ \E code \in ModelErrors :
       /\ modelStatus' = [modelStatus EXCEPT ![t] = code]
       /\ status' = [status EXCEPT ![t] = ErrorStatus(code)]
  /\ pc' = [pc EXCEPT ![t] = "done"]
  /\ UNCHANGED <<conversation, snap, reply, extractedData, visibleText, aiResponse,
                 hotelVars, textVars, flightVars, uiVars, variantVars>>

\* a 2xx answer whose body is not JSON or carries no choices[0].message:
\* reading the content throws and the outer catch answers 500
ReplyUnreadable(t) ==
  /\ pc[t] = "model"
  /\ modelStatus' = [modelStatus EXCEPT ![t] = 200]
  /\ status' = [status EXCEPT ![t] = 500]
  /\ pc' = [pc EXCEPT ![t] = "done"]
  /\ UNCHANGED <<conversation, snap, reply, extractedData, visibleText, aiResponse,
                 hotelVars, textVars, flightVars, uiVars, variantVars>>

\* the objects the document of r may decode to, as the member reads of the
\* merge see them: every member of a number, a string or an array reads
\* undefined
Decodings(r, objs) ==
  IF ~ParseOk(r) THEN {EmptyObject}
  ELSE IF Document(r) = "J" THEN objs
  ELSE {EmptyObject}

\* the model answers r, whose JSON document (if any) decodes to d: extraction,
\* enrichment, merge, conditional update, response; reading a member of a
\* decoded null throws, and the outer catch answers 500
ModelReplies(t, objs) ==
  /\ pc[t] = "model"
  /\ \E r \in Replies :
       IF ParseOk(r) /\ Document(r) = "Jnull"
       THEN /\ reply' = [reply EXCEPT ![t] = r]
            /\ visibleText' = [visibleText EXCEPT ![t] = StripExtract(r)]
            /\ status' = [status EXCEPT ![t] = 500]
            /\ UNCHANGED <<extractedData, aiResponse, conversation>>
       ELSE \E d \in Decodings(r, objs) :
              LET c == snap[t]
                  data == ExtractedData(r, d)
                  stripped == StripExtract(r)
                  updates == Updates(data)
                  newPreferences == NewPreferences(c.preferences, data)
              IN  /\ reply' = [reply EXCEPT ![t] = r]
                  /\ extractedData' = [extractedData EXCEPT ![t] = data]
                  /\ visibleText' = [visibleText EXCEPT ![t] = stripped]
                  /\ aiResponse' =
                       [aiResponse EXCEPT ![t] =
                          IF AtItinerary(c)
                          THEN parseRecommendationsWithLinks(stripped,
                                                             AsText(hasDestination(c)))
                          ELSE stripped]
                  /\ conversation' =
                       IF ShouldUpdate(updates, newPreferences, c.preferences)
                       THEN UpdateRow(conversation, updates, newPreferences)
                       ELSE conversation
                  /\ status' = [status EXCEPT ![t] = 200]
  /\ modelStatus' = [modelStatus EXCEPT ![t] = 200]
  /\ pc' = [pc EXCEPT ![t] = "done"]
  /\ UNCHANGED <<snap, hotelVars, textVars, flightVars, uiVars, variantVars>>

\* the response is delivered; the handler is free for the next message
NextMessage(t) ==
  /\ pc[t] = "done"
  /\ pc' = [pc EXCEPT ![t] = "idle"]
  /\ snap' = [snap EXCEPT ![t] = NewConversation]
  /\ reply' = [reply EXCEPT ![t] = <<>>]
  /\ extractedData' = [extractedData EXCEPT ![t] = EmptyObject]
  /\ visibleText' = [visibleText EXCEPT ![t] = <<>>]
  /\ aiResponse' = [aiResponse EXCEPT ![t] = <<>>]
  /\ status' = [status EXCEPT ![t] = 0]
  /\ modelStatus' = [modelStatus EXCEPT ![t] = 0]
  /\ hotelData' = NoSearch
  /\ prompt' = "none"
  /\ UNCHANGED <<conversation, env, client, calls, hotelSearchResult, history, textVars, flightVars, uiVars, variantVars>>

\* one conversation whose turns arrive one after the other
Init == TurnInit /\ HotelOff /\ TextOff /\ FlightOff /\ VariantOff /\ ChatOff

Next ==
  \/ ReadConversation(1)
  \/ ModelFails(1)
  \/ ReplyUnreadable(1)
  \/ ModelReplies(1, TurnExtractions)
  \/ NextMessage(1)

Spec == Init /\ [][Next]_vars

\* ---------------------------------------------------------------- overlap
SlotOrder ==
  <<"origin", "destination", "weather_preference", "activities", "budget",
    "budget_allocation", "dates", "date_flexibility", "confirmed">>

StageNames ==
  <<"NeedOrigin", "NeedDestination", "NeedWeather", "NeedActivities", "NeedBudget",
    "NeedBudgetAllocation", "NeedDates", "NeedFlexibility", "NeedConfirmation">>

\* the row after the first n slots were collected in stage order, each
\* written where the handler writes it
CollectedRow(n) ==
  [destination |-> IF n >= 2 THEN "v" ELSE Null,
   budget |-> IF n >= 5 THEN "3000" ELSE Null,
   start_date |-> Null,
   preferences |->
     [k \in PrefKeys |->
        IF k \in {"destination", "budget"} THEN Undefined
        ELSE IF \E i \in 1..n : SlotOrder[i] = k
             THEN CASE k = "origin" -> "London"
                    [] k = "confirmed" -> "true"
                    [] OTHER -> "v"
             ELSE Undefined]]

\* two requests of one conversation, at any point of the collection, whose
\* handlers both read the row before either has written it
RaceInit ==
  /\ conversation \in {CollectedRow(n) : n \in 0..9}
  /\ pc = [t \in Turns |-> "idle"]
  /\ snap = [t \in Turns |-> NewConversation]
  /\ reply = [t \in Turns |-> <<>>]
  /\ extractedData = [t \in Turns |-> EmptyObject]
  /\ visibleText = [t \in Turns |-> <<>>]
  /\ aiResponse = [t \in Turns |-> <<>>]
  /\ status = [t \in Turns |-> 0]
  /\ modelStatus = [t \in Turns |-> 0]
  /\ HotelOff
  /\ FlightOff
  /\ ChatOff
  /\ VariantOff
  /\ TextOff

RaceRead(t) ==
  /\ \A u \in Turns : pc[u] # "done"
  /\ ReadConversation(t)

RaceNext ==
  \/ \E t \in Turns : RaceRead(t)
  \/ \E t \in Turns : ModelFails(t)
  \/ \E t \in Turns : ReplyUnreadable(t)
  \/ \E t \in Turns : ModelReplies(t, RaceExtractions)

SpecRace == RaceInit /\ [][RaceNext]_vars

\* ---------------------------------------------------------------- claims
\* the value a slot of the record holds, in either representation
SlotValue(c, k) ==
  CASE k = "destination" -> hasDestination(c)
    [] k = "budget" -> hasBudget(c)
    [] k = "dates" -> hasDates(c)
    [] OTHER -> c.preferences[k]

Filled(c, k) == Truthy(SlotValue(c, k))

Unfilled(c) == {i \in 1..9 : ~Filled(c, SlotOrder[i])}

Replied(t) == pc[t] = "done" /\ status[t] = 200

\* an opening delimiter with a closing delimiter somewhere after it
HasBlock(s) == \E i \in 1..Len(s) : \E j \in (i + 1)..Len(s) : s[i] = "E" /\ s[j] = "N"

\* C1: the stage a turn computes is the first unfilled slot in the order
\* origin, destination, weather, activities, budget, allocation, dates,
\* flexibility, confirmation, and Ready exactly when none is unfilled.
C1_StageIsFirstUnfilled ==
  \A t \in Turns :
    pc[t] # "idle" =>
      SelectStage(snap[t]) =
        IF Unfilled(snap[t]) = {} THEN "Ready"
        ELSE StageNames[SetMin(Unfilled(snap[t]))]

\* C1 witness: a turn reads a record whose only unfilled slot is the budget,
\* filled out of order, and computes NeedBudget.
C1_Witness ==
  /\ pc[1] = "model"
  /\ Unfilled(snap[1]) = {5}
  /\ SelectStage(snap[1]) = "NeedBudget"

\* C2: once the stored record yields stage Ready, it yields Ready after every
\* later step, so every later turn computes Ready.
C2_ReadyIsStable ==
  [][SelectStage(conversation) = "Ready" => SelectStage(conversation') = "Ready"]_vars

\* C3: a filled slot changes only in a turn whose decoded object carries a
\* non-null, non-empty value for that slot's key.
C3_MergeNeverUnsets ==
  [][\A k \in PrefKeys :
       (Filled(conversation, k) /\ SlotValue(conversation', k) # SlotValue(conversation, k))
         => \E t \in Turns :
              /\ pc[t] = "model"
              /\ pc'[t] = "done"
              /\ extractedData'[t][k] \notin {Undefined, Null, EmptyStr}]_vars

\* C4: after a turn that returned a reply the stored record is the record it
\* read merged with its extracted update.
C4_StoredIsMerged ==
  Replied(1) =>
    conversation =
      UpdateRow(snap[1], Updates(extractedData[1]),
                NewPreferences(snap[1].preferences, extractedData[1]))

\* C5: when two overlapping turns have both replied, every slot either of them
\* extracted is filled in the stored record.
C5_NoLostSlot ==
  (\A t \in Turns : Replied(t)) =>
    \A t \in Turns : \A k \in PrefKeys :
      Truthy(extractedData[t][k]) => Filled(conversation, k)

\* C6: a reply without a delimited extraction block leaves the visible text of
\* the extraction step equal to the reply and the stored record as it was read.
C6_NoBlockNoChange ==
  \A t \in {1} :
    (Replied(t) /\ ~HasBlock(reply[t])) =>
      /\ visibleText[t] = reply[t]
      /\ extractedData[t] = EmptyObject
      /\ conversation = snap[t]

\* C6 witness: a reply with an unclosed opening delimiter was answered on a
\* record that already holds slots.
C6_Witness ==
  /\ Replied(1)
  /\ ~HasBlock(reply[1])
  /\ \E i \in 1..Len(reply[1]) : reply[1][i] = "E"
  /\ Unfilled(snap[1]) # 1..9

\* C7: a reply whose delimited block does not decode is answered with status
\* 200, an empty update, and a returned text without the block.
C7_BadBlockIsStripped ==
  \A t \in Turns :
    (pc[t] = "done" /\ HasBlock(reply[t]) /\ ~ParseOk(reply[t])) =>
      /\ status[t] = 200
      /\ extractedData[t] = EmptyObject
      /\ ~HasBlock(aiResponse[t])

\* ---------------------------------------------------------------- extraction alone
ReplyAlphabet == {"a", " ", "E", "J", "N"}

ReplyInputs == UNION {[1..n -> ReplyAlphabet] : n \in 0..MaxReplyLen}

ExtractInit ==
  /\ TurnInit
  /\ HotelOff
  /\ FlightOff
  /\ ChatOff
  /\ VariantOff
  /\ input \in ReplyInputs
  /\ dest = <<>>
  /\ once = <<>>
  /\ twice = <<>>
  /\ links = <<>>
  /\ step = "reply"

\* the extraction step applied to a model reply
ExtractOnce ==
  /\ step = "reply"
  /\ once' = StripExtract(input)
  /\ step' = "stripped"
  /\ UNCHANGED <<turnVars, flightVars, uiVars, variantVars, input, dest, twice, links>>

\* the extraction step applied to its own visible text
ExtractAgain ==
  /\ step = "stripped"
  /\ twice' = StripExtract(once)
  /\ step' = "restripped"
  /\ UNCHANGED <<turnVars, flightVars, uiVars, variantVars, input, dest, once, links>>

ExtractNext == ExtractOnce \/ ExtractAgain

SpecExtract == ExtractInit /\ [][ExtractNext]_vars

\* ---------------------------------------------------------------- enricher alone
\* place mentions: "Do abc - d.", "Do Abc.", "Do abc (d).", "Do a  b.",
\* "Do A b.", "Do aDo bc.", "Do ab.", "Do abc\n", "d ", "Do abc:d.",
\* "Do Do abc.", "Do abc.", "Do abc(d)."
Mentions ==
  <<<<"V", " ", "a", "b", "c", " ", "-", " ", "d", ".">>,
    <<"V", " ", "A", "b", "c", ".">>,
    <<"V", " ", "a", "b", "c", " ", "(", "d", ")", ".">>,
    <<"V", " ", "a", " ", " ", "b", ".">>,
    <<"V", " ", "A", " ", "b", ".">>,
    <<"V", " ", "a", "V", " ", "b", "c", ".">>,
    <<"V", " ", "a", "b", ".">>,
    <<"V", " ", "a", "b", "c", "\n">>,
    <<"d", " ">>,
    <<"V", " ", "a", "b", "c", ":", "d", ".">>,
    <<"V", " ", "V", " ", "a", "b", "c", ".">>,
    <<"V", " ", "a", "b", "c", ".">>,
    <<"V", " ", "a", "b", "c", "(", "d", ")", ".">>>>

RECURSIVE Flatten(_)
Flatten(ss) == IF ss = <<>> THEN <<>> ELSE Head(ss) \o Flatten(Tail(ss))

EnrichInputs ==
  {Flatten([i \in 1..Len(f) |-> Mentions[f[i]]]) :
     f \in UNION {[1..n -> 1..Len(Mentions)] : n \in 0..MaxMentions}}

EnrichInit ==
  /\ TurnInit
  /\ HotelOff
  /\ FlightOff
  /\ ChatOff
  /\ VariantOff
  /\ input \in EnrichInputs
  /\ dest = <<"P">>
  /\ once = <<>>
  /\ twice = <<>>
  /\ links = <<>>
  /\ step = "text"

\* the enricher applied to a reply text
EnrichOnce ==
  /\ step = "text"
  /\ once' = parseRecommendationsWithLinks(input, dest)
  /\ links' = EnrichRun(input, dest).links
  /\ step' = "enriched"
  /\ UNCHANGED <<turnVars, flightVars, uiVars, variantVars, input, dest, twice>>

\* the enricher applied to its own output
EnrichAgain ==
  /\ step = "enriched"
  /\ twice' = parseRecommendationsWithLinks(once, dest)
  /\ step' = "reenriched"
  /\ UNCHANGED <<turnVars, flightVars, uiVars, variantVars, input, dest, once, links>>

EnrichNext == EnrichOnce \/ EnrichAgain

SpecEnrich == EnrichInit /\ [][EnrichNext]_vars

\* C8: extraction applied to the visible text of an extraction returns that
\* same visible text.
C8_ExtractIdempotent == step = "restripped" => twice = once

\* C9: the enricher applied to its own output returns that output.
C9_EnrichIdempotent == step = "reenriched" => twice = once

\* C10: no two links appended by one enricher call are for place names that
\* are equal ignoring case.
C10_NoDuplicateLinks ==
  step \in {"enriched", "reenriched"} =>
    \A i \in DOMAIN links : \A j \in DOMAIN links :
      i < j => toLowerCase(links[i]) # toLowerCase(links[j])

RECURSIVE LinksAfterSpans(_, _, _, _)
\* response with, for every linked match from the last to the first, the link
\* of its place name inserted directly after the last index of its match[0]
LinksAfterSpans(response, destination, names, ats) ==
  IF names = <<>> THEN response
  ELSE LET n == Len(names)
           linked == SubSeq(response, 1, ats[n])
                       \o LinkText(names[n], createGoogleMapsUrl(names[n], destination))
                       \o SubSeq(response, ats[n] + 1, Len(response))
       IN  LinksAfterSpans(linked, destination, SubSeq(names, 1, n - 1),
                           SubSeq(ats, 1, n - 1))

\* C11: the enriched text is the reply with, for each place name that got a
\* link, one link built from the encoded "placeName destination" directly
\* after the span that matched that mention, the links in the order of the
\* mentions.
C11_LinkFollowsItsMention ==
  step \in {"enriched", "reenriched"} =>
    once = LinksAfterSpans(input, dest, links, EnrichRun(input, dest).at)

\* ---------------------------------------------------------------- turn with hotel search
MaxTurns == 2

MaxHotels == 2

\* the elements of a destination search's data: a city, a result without
\* search_type, a null element
ResolveResults ==
  {[shape |-> "object", dest_id |-> "-1456928", label |-> "Paris", search_type |-> "city"],
   [shape |-> "object", dest_id |-> "-1456928", label |-> "Paris", search_type |-> Undefined],
   [shape |-> "null", dest_id |-> Undefined, label |-> Undefined, search_type |-> Undefined]}

ResolveBodies ==
  {NullBody, NoData, [shape |-> "list", data |-> <<>>]}
    \cup {[shape |-> "list", data |-> <<r>>] : r \in ResolveResults}

\* the elements of data.hotels: a priced hotel, a hotel whose price value is
\* a string and whose currency is missing, an object without fields, null
Offers ==
  {[shape |-> "object", hotel_id |-> "#1", name |-> "Hotel 1", value |-> "#120",
    currency |-> "EUR"],
   [shape |-> "object", hotel_id |-> "#2", name |-> "Hotel 2", value |-> "120.50",
    currency |-> Undefined],
   [shape |-> "object", hotel_id |-> Undefined, name |-> Undefined, value |-> Undefined,
    currency |-> Undefined],
   [shape |-> "null", hotel_id |-> Undefined, name |-> Undefined, value |-> Undefined,
    currency |-> Undefined]}

HotelLists == UNION {[1..n -> Offers] : n \in 0..MaxHotels}

SearchBodies ==
  {NullBody, NoData, NoList} \cup {[shape |-> "list", data |-> h] : h \in HotelLists}

\* the photos of the first room of data.rooms
DetailBodies ==
  {NullBody, NoData, NoList}
    \cup {[shape |-> "list", data |-> ph] :
            ph \in {<<>>, <<"room.jpg">>, <<Undefined, "room.jpg">>, <<Null, "room.jpg">>}}

\* the bodies a request may be answered with
Answers(transport, bodies) == IF transport = "json" THEN bodies ELSE {NullBody}

\* the decoded objects a reply carries at the end of the collection
ReadyExtractions ==
  {d \in RaceExtractions :
     \A k \in PrefKeys : d[k] # Undefined => k \in {"date_flexibility", "confirmed"}}

\* the values a stored dates slot can hold: text without a date, text with
\* two dates, with one ISO date, with one day-first slash date (which
\* new Date() reads as an invalid date), an object and a number (the slot is
\* written with whatever the decoded "dates" member is)
DateValues ==
  {"v", "2025-07-01 to 2025-07-08", "2025-07-08 to 2025-07-01", "2025-07-01",
   "15/07/2025", "{start,end}", "#2025"}

\* the Ready branch working out arrivalDate and departureDate from hasDates:
\* match is not a function of an object or a number, and toISOString throws
\* on an invalid date
ParseDates(dates) ==
  CASE ~Truthy(dates) -> [threw |-> FALSE, arrivalDate |-> "now+30", departureDate |-> "now+37"]
    [] dates \in {"{start,end}", "#2025"} ->
         [threw |-> TRUE, arrivalDate |-> EmptyStr, departureDate |-> EmptyStr]
    [] dates = "2025-07-01 to 2025-07-08" ->
         [threw |-> FALSE, arrivalDate |-> "2025-07-01", departureDate |-> "2025-07-08"]
    [] dates = "2025-07-08 to 2025-07-01" ->
         [threw |-> FALSE, arrivalDate |-> "2025-07-08", departureDate |-> "2025-07-01"]
    [] dates = "2025-07-01" ->
         [threw |-> FALSE, arrivalDate |-> "2025-07-01", departureDate |-> "2025-07-08"]
    [] dates = "15/07/2025" ->
         [threw |-> TRUE, arrivalDate |-> "15/07/2025", departureDate |-> EmptyStr]
    [] OTHER -> [threw |-> FALSE, arrivalDate |-> "now+30", departureDate |-> "now+37"]

\* budget_allocation.accommodation: the member of an allocation object,
\* undefined of a string
Accommodation(allocation) ==
  IF allocation = "{accommodation:40}" THEN "#40" ELSE Undefined

\* the arguments of the searchHotels call of the Ready branch: budgetMax is
\* budget_allocation?.accommodation ?? 1000
ReadyArgs(c) ==
  [shape |-> "called",
   city |-> hasDestination(c),
   startDate |-> ParseDates(hasDates(c)).arrivalDate,
   endDate |-> ParseDates(hasDates(c)).departureDate,
   accomBudget |-> Coalesce(Accommodation(c.preferences["budget_allocation"]), "#1000")]

\* the stored rows a turn can find: nothing collected (which is also how a
\* missing row reads, every access going through conversation?.), all but
\* the last slots, and everything collected with each kind of dates value
ReadyRows ==
  {CollectedRow(n) : n \in {0, 7, 8}}
    \cup {[CollectedRow(9) EXCEPT !.preferences["dates"] = d] : d \in DateValues}

ReadyInit ==
  /\ conversation \in ReadyRows
  /\ pc = [t \in Turns |-> "idle"]
  /\ snap = [t \in Turns |-> NewConversation]
  /\ reply = [t \in Turns |-> <<>>]
  /\ extractedData = [t \in Turns |-> EmptyObject]
  /\ visibleText = [t \in Turns |-> <<>>]
  /\ aiResponse = [t \in Turns |-> <<>>]
  /\ status = [t \in Turns |-> 0]
  /\ modelStatus = [t \in Turns |-> 0]
  /\ env \in [{"OPENAI_API_KEY", "BOOKING_API_HOST", "BOOKING_API_KEY"} -> BOOLEAN]
  /\ client = NewClient
  /\ calls = <<>>
  /\ hotelSearchResult = NullBody
  /\ hotelData = NoSearch
  /\ prompt = "none"
  /\ history = <<>>
  /\ TextOff
  /\ FlightOff
  /\ ChatOff
  /\ VariantOff

\* the request arrives: without the model key the handler throws at once;
\* otherwise the row is read and the stage chosen, and at Ready the dates and
\* the accommodation budget are worked out and searchHotels is called; an
\* exception while working out the dates reaches the outer catch; searchArgs
\* holds the arguments of this turn's searchHotels call
BeginTurn(t) ==
  /\ pc[t] = "idle"
  /\ Len(history) < MaxTurns
  /\ IF ~env["OPENAI_API_KEY"]
     THEN /\ pc' = [pc EXCEPT ![t] = "done"]
          /\ status' = [status EXCEPT ![t] = 500]
          /\ history' = Append(history, [record |-> conversation, searched |-> FALSE])
          /\ UNCHANGED snap
     ELSE /\ snap' = [snap EXCEPT ![t] = conversation]
          /\ IF SelectStage(conversation) = "Ready"
             THEN IF ParseDates(hasDates(conversation)).threw
                  THEN /\ pc' = [pc EXCEPT ![t] = "done"]
                       /\ status' = [status EXCEPT ![t] = 500]
                       /\ history' =
                            Append(history, [record |-> conversation, searched |-> FALSE])
                  ELSE /\ pc' = [pc EXCEPT ![t] = "hotel"]
                       /\ status' = [status EXCEPT ![t] = 0]
                       /\ history' =
                            Append(history, [record |-> conversation, searched |-> TRUE])
             ELSE /\ pc' = [pc EXCEPT ![t] = "model"]
                  /\ status' = [status EXCEPT ![t] = 0]
                  /\ history' = Append(history, [record |-> conversation, searched |-> FALSE])
  /\ searchArgs' = IF pc'[t] = "hotel" THEN ReadyArgs(conversation) ELSE NoArgs
  /\ UNCHANGED <<conversation, reply, extractedData, visibleText, aiResponse,
                 modelStatus, env, client, calls, hotelSearchResult, hotelData,
                 prompt, textVars, flightVars, uiVars, messages, suggestions>>

\* searchHotels, steps 1 to 3: without host or key it returns null
SearchHotelsBegin(t) ==
  /\ pc[t] = "hotel"
  /\ IF ~env["BOOKING_API_HOST"] \/ ~env["BOOKING_API_KEY"]
     THEN /\ hotelData' = NoHotel
          /\ pc' = [pc EXCEPT ![t] = "prompt"]
     ELSE /\ hotelData' = NoSearch
          /\ pc' = [pc EXCEPT ![t] = "resolve"]
  /\ client' = NewClient
  /\ calls' = <<>>
  /\ hotelSearchResult' = NullBody
  /\ UNCHANGED <<conversation, snap, reply, extractedData, visibleText, aiResponse,
                 status, modelStatus, env, prompt, history, textVars, flightVars, uiVars, variantVars>>

\* step 4: apiClient.searchDestination(); false ends the search with null, an
\* exception is caught by the catch of searchHotels
SearchDestinationStep(t) ==
  /\ pc[t] = "resolve"
  /\ \E transport \in Transports : \E body \in Answers(transport, ResolveBodies) :
       LET api == _makeApiCall(transport, body)
           out == searchDestination(client, api.value)
           threw == api.threw \/ out.threw
           ok == ~threw /\ out.ret
       IN  /\ calls' = Append(calls, Call("searchDestination", Undefined, transport, body,
                                          Returned(threw, ok)))
           /\ client' = IF ok THEN out.client ELSE client
           /\ hotelData' = IF ok THEN hotelData ELSE NoHotel
           /\ pc' = [pc EXCEPT ![t] = IF ok THEN "filter" ELSE "prompt"]
  /\ UNCHANGED <<conversation, snap, reply, extractedData, visibleText, aiResponse,
                 status, modelStatus, env, hotelSearchResult, prompt, history, textVars, flightVars, uiVars, variantVars>>

\* a bug that gives up the search when the filter call finds nothing
GetFiltersStepBlocks(t) ==
  /\ pc[t] = "filter"
  /\ IF IdMissing(client)
     THEN /\ pc' = [pc EXCEPT ![t] = "prompt"]
          /\ hotelData' = NoHotel
          /\ UNCHANGED calls
     ELSE \E transport \in Transports : \E body \in Answers(transport, {NoData, NoList}) :
            LET api == _makeApiCall(transport, body)
                dict == DictOrNull(api.value)
            IN  /\ calls' = Append(calls, Call("getFilter", Undefined, transport, body,
                                               Returned(api.threw, dict # NullBody)))
                /\ hotelData' = IF dict = NullBody THEN NoHotel ELSE hotelData
                /\ pc' = [pc EXCEPT ![t] = IF dict = NullBody THEN "prompt" ELSE "search"]
  /\ UNCHANGED <<conversation, snap, reply, extractedData, visibleText, aiResponse,
                 status, modelStatus, env, client, hotelSearchResult, prompt, history,
                 textVars, flightVars, uiVars, variantVars>>

\* step 5: apiClient.getFilters(), whose result is not used; no request
\* without an id and a search type
GetFiltersStep(t) ==
  /\ pc[t] = "filter"
  /\ IF IdMissing(client)
     THEN /\ pc' = [pc EXCEPT ![t] = "search"]
          /\ UNCHANGED <<calls, hotelData>>
     ELSE \E transport \in Transports : \E body \in Answers(transport, {NoData, NoList}) :
            LET api == _makeApiCall(transport, body)
                dict == DictOrNull(api.value)
            IN  /\ calls' = Append(calls, Call("getFilter", Undefined, transport, body,
                                               Returned(api.threw, dict # NullBody)))
                /\ hotelData' = IF api.threw THEN NoHotel ELSE hotelData
                /\ pc' = [pc EXCEPT ![t] = IF api.threw THEN "prompt" ELSE "search"]
  /\ UNCHANGED <<conversation, snap, reply, extractedData, visibleText, aiResponse,
                 status, modelStatus, env, client, hotelSearchResult, prompt, history,
                 textVars, flightVars, uiVars, variantVars>>

\* steps 6 and 7: apiClient.searchHotels(); null, no hotels or an empty list
\* end the search with null; reading a null first hotel throws
SearchHotelsStep(t) ==
  /\ pc[t] = "search"
  /\ IF IdMissing(client)
     THEN /\ hotelSearchResult' = NullBody
          /\ hotelData' = NoHotel
          /\ pc' = [pc EXCEPT ![t] = "prompt"]
          /\ UNCHANGED calls
     ELSE \E transport \in Transports : \E body \in Answers(transport, SearchBodies) :
            LET api == _makeApiCall(transport, body)
                dict == DictOrNull(api.value)
                some == ~api.threw /\ dict.shape = "list" /\ Len(dict.data) > 0
                ok == some /\ FirstHotel(dict.data).shape # "null"
            IN  /\ calls' = Append(calls, Call("searchHotels", Undefined, transport, body,
                                               Returned(api.threw, dict # NullBody)))
                /\ hotelSearchResult' = dict
                /\ hotelData' = IF ok THEN hotelData ELSE NoHotel
                /\ pc' = [pc EXCEPT ![t] = IF ok THEN "detail" ELSE "prompt"]
  /\ UNCHANGED <<conversation, snap, reply, extractedData, visibleText, aiResponse,
                 status, modelStatus, env, client, prompt, history, textVars, flightVars, uiVars, variantVars>>

\* step 8: apiClient.getHotelDetails(hotelId) and the room photo;
\* hotelId.toString() throws on a hotel without hotel_id
GetHotelDetailsStep(t) ==
  /\ pc[t] = "detail"
  /\ LET firstHotel == FirstHotel(hotelSearchResult.data)
         hotelId == firstHotel.hotel_id
     IN  IF hotelId \in {Undefined, Null}
         THEN /\ hotelData' = NoHotel
              /\ UNCHANGED calls
         ELSE \E transport \in Transports : \E body \in Answers(transport, DetailBodies) :
                LET api == _makeApiCall(transport, body)
                    detailsResult == DictOrNull(api.value)
                IN  /\ calls' = Append(calls, Call("getHotelDetails", hotelId, transport, body,
                                                   Returned(api.threw, detailsResult # NullBody)))
                    /\ hotelData' =
                         IF api.threw THEN NoHotel
                         ELSE [FromSearch(client, firstHotel) EXCEPT
                                 !.room_photo_url = RoomPhoto(detailsResult)]
  /\ pc' = [pc EXCEPT ![t] = "prompt"]
  /\ UNCHANGED <<conversation, snap, reply, extractedData, visibleText, aiResponse,
                 status, modelStatus, env, client, hotelSearchResult, prompt, history,
                 textVars, flightVars, uiVars, variantVars>>

\* the accommodation part of systemPrompt: the hotel block, which formats
\* hotelData.price with toFixed, or the note that no hotel could be found;
\* then the model is called
BuildPrompt(t) ==
  /\ pc[t] = "prompt"
  /\ IF hotelData.shape = "result" /\ ~IsNumber(hotelData.price)
     THEN /\ pc' = [pc EXCEPT ![t] = "done"]
          /\ status' = [status EXCEPT ![t] = 500]
          /\ UNCHANGED prompt
     ELSE /\ pc' = [pc EXCEPT ![t] = "model"]
          /\ prompt' = IF hotelData.shape = "result" THEN "hotel" ELSE "fallback"
          /\ UNCHANGED status
  /\ client' = NewClient
  /\ calls' = <<>>
  /\ hotelSearchResult' = NullBody
  /\ UNCHANGED <<conversation, snap, reply, extractedData, visibleText, aiResponse,
                 modelStatus, env, hotelData, history, textVars, flightVars, uiVars, variantVars>>

ReadyNext ==
  \/ BeginTurn(1)
  \/ SearchHotelsBegin(1)
  \/ SearchDestinationStep(1)
  \/ GetFiltersStep(1)
  \/ SearchHotelsStep(1)
  \/ GetHotelDetailsStep(1)
  \/ BuildPrompt(1)
  \/ ModelFails(1)
  \/ ReplyUnreadable(1)
  \/ ModelReplies(1, ReadyExtractions)
  \/ NextMessage(1)

SpecReady == ReadyInit /\ [][ReadyNext]_vars

\* the stored record as it was when the running turn began
RecordAtStart == history[Len(history)].record

\* the running turn invoked searchHotels
Searched == history # <<>> /\ history[Len(history)].searched

\* a destination search answered with a body that lists no result
ZeroResults(c) ==
  c.endpoint = "searchDestination" /\ c.transport = "json" /\ c.count = 0

\* C12: when the destination search lists no result, searchHotels returns null
\* and the destination search is the only request it issued.
C12_NoDestinationEndsSearch ==
  (calls # <<>> /\ ZeroResults(calls[1])) =>
    /\ Len(calls) = 1
    /\ pc[1] = "prompt"
    /\ hotelData = NoHotel

\* C12 witness: searchHotels has returned after a destination search that was
\* answered with an empty data list.
C12_Witness ==
  /\ pc[1] = "prompt"
  /\ calls # <<>>
  /\ ZeroResults(calls[1])
  /\ calls[1].shape = "list"

\* C13: a request that ends in a non-2xx status, an undecodable body or a
\* rejected fetch makes its client method return not-found, and searchHotels
\* returns null or a hotel, never an exception.
C13_TransportFailureIsNotFound ==
  /\ \A i \in DOMAIN calls :
       calls[i].transport # "json" => calls[i].returned = "notfound"
  /\ pc[1] = "prompt" => hotelData.shape \in {"null", "result"}

\* C13 witness: searchHotels has returned a hotel although the filter request
\* got an undecodable body and the detail request was rejected by the network.
C13_Witness ==
  /\ pc[1] = "prompt"
  /\ Len(calls) = 4
  /\ calls[2].transport = "notJson"
  /\ calls[4].transport = "network"
  /\ hotelData.shape = "result"

C15_HotelOutcomeNeverAborts ==
  [][pc[1] = "prompt" =>
       /\ pc'[1] = "model"
       /\ prompt' = IF hotelData.shape = "result" THEN "hotel" ELSE "fallback"]_vars

\* C16: searchHotels is invoked only on turns whose stage is Ready, and no two
\* turns that began on equal stored records both invoke it.
C16_SearchOncePerSnapshot ==
  /\ \A i \in DOMAIN history :
       history[i].searched => SelectStage(history[i].record) = "Ready"
  /\ \A i \in DOMAIN history : \A j \in DOMAIN history :
       (i < j /\ history[i].searched /\ history[j].searched) =>
         history[i].record # history[j].record

\* C17: a model call answered with 429 or 402 ends the turn with that same
\* status, not with 500.
C17_NamedModelErrors ==
  \A t \in Turns :
    (pc[t] = "done" /\ modelStatus[t] \in {429, 402}) => status[t] = modelStatus[t]

\* C18: from the start of a turn until it has answered 200 the stored record
\* is the record the turn began with, so a turn that ends in an error response
\* leaves it as it was.
C18_ErrorTurnWritesNothing ==
  (history # <<>> /\ pc[1] # "idle" /\ ~Replied(1)) => conversation = RecordAtStart

\* C18 witness: a turn on a complete record ended with the rate-limit response.
C18_Witness ==
  /\ pc[1] = "done"
  /\ status[1] = 429
  /\ SelectStage(conversation) = "Ready"

\* C19: a turn that needs a secret that is not configured (the model key on
\* every turn, the provider host and key on a turn that searches hotels) ends
\* with a 5xx response without a model call.
C19_MissingCredentialsAreFatal ==
  (/\ pc[1] = "done"
   /\ \/ ~env["OPENAI_API_KEY"]
      \/ Searched /\ (~env["BOOKING_API_HOST"] \/ ~env["BOOKING_API_KEY"])) =>
    /\ status[1] >= 500
    /\ modelStatus[1] = 0

\* a value is held
Holds(v) == v \notin {Undefined, Null}

\* two representations of one slot agree
SameValue(column, field) == (Holds(column) \/ Holds(field)) => column = field

\* C20: after a turn has written the row, the destination, budget and
\* start_date columns hold the same values as the destination, budget and
\* dates fields of preferences.
C20_ColumnsMatchBlob ==
  (pc[1] = "done" /\ conversation # snap[1]) =>
    /\ SameValue(conversation.destination, conversation.preferences["destination"])
    /\ SameValue(conversation.budget, conversation.preferences["budget"])
    /\ SameValue(conversation.start_date, conversation.preferences["dates"])

\* ---------------------------------------------------------------- flight offers
\* A field of an offer's totalRounded object is <<>> when it is missing (or
\* null) and <<n>> when it holds the number n.  A price is held in hundredths:
\* 12050 is the number 120.50.
MaxOffers == 1

\* v ?? 0
OrZero(v) == IF v = <<>> THEN 0 ELSE v[1]

\* the 1_000_000_000 of price += nanos / 1_000_000_000
NanosPerUnit == 1000000000

\* the nanos in one hundredth
NanosPerCent == NanosPerUnit \div 100

\* the <<units, nanos>> whose sum lies on a half hundredth and whose nearest
\* double lies below it: toFixed rounds these down
DoubleBelowHalf == {<<1, 5000000>>, <<120, 5000000>>, <<0, 995000000>>}

\* a bug that cuts the price off after two decimals
toFixed2Truncates(units, nanos) == units * 100 + nanos \div NanosPerCent

\* parseFloat((units + nanos / 1_000_000_000).toFixed(2)), in hundredths
toFixed2(units, nanos) ==
  LET rest == nanos % NanosPerCent
      half == NanosPerCent \div 2
      up == \/ rest > half
            \/ rest = half /\ <<units, nanos>> \notin DoubleBelowHalf
  IN units * 100 + nanos \div NanosPerCent + (IF up THEN 1 ELSE 0)

\* a bug that falls back to the currency code of the request
CleanOfferRequestCurrency(offer) ==
  [price |-> toFixed2(OrZero(offer.units), OrZero(offer.nanos)),
   currency |-> IF offer.currencyCode = Undefined THEN "EUR" ELSE offer.currencyCode]

\* one element of cleanOffers
CleanOffer(offer) ==
  [price |-> toFixed2(OrZero(offer.units), OrZero(offer.nanos)),
   currency |-> IF offer.currencyCode = Undefined THEN "N/A" ELSE offer.currencyCode]

\* reading a property of a null offer throws; otherwise the clean offers
parseFlightOffers(response_data) ==
  IF response_data.shape # "list" THEN [threw |-> FALSE, offers |-> <<>>]
  ELSE IF \E i \in DOMAIN response_data.data : response_data.data[i].shape = "null"
  THEN [threw |-> TRUE, offers |-> <<>>]
  ELSE [threw |-> FALSE,
        offers |-> [i \in DOMAIN response_data.data |-> CleanOffer(response_data.data[i])]]

\* the offers a flight search answer can carry
FlightUnits == {<<>>, <<0>>, <<1>>, <<120>>}

FlightNanos ==
  {<<>>, <<0>>, <<4999999>>, <<5000000>>, <<5000001>>, <<125000000>>,
   <<500000000>>, <<995000000>>, <<999999999>>}

FlightOffers ==
  {[shape |-> "object", units |-> u, nanos |-> n, currencyCode |-> c] :
     u \in FlightUnits, n \in FlightNanos, c \in {Undefined, "EUR", "USD"}}
  \cup {[shape |-> "null", units |-> <<>>, nanos |-> <<>>, currencyCode |-> Undefined]}

\* no answer, an answer without data, data without flightOffers, or a list
FlightResponses ==
  {NullBody, NoData, NoList}
  \cup {[shape |-> "list", data |-> l] :
          l \in UNION {[1..n -> FlightOffers] : n \in 0..MaxOffers}}

\* what apiClient.searchHotels() returned when step 7 is reached: a list
\* whose first hotel is an object
FoundHotels ==
  {[shape |-> "list", data |-> <<h>>] : h \in {o \in Offers : o.shape = "object"}}

OffersInit ==
  /\ TurnInit
  /\ env = [OPENAI_API_KEY |-> TRUE, BOOKING_API_HOST |-> TRUE, BOOKING_API_KEY |-> TRUE]
  /\ client = NewClient
  /\ calls = <<>>
  /\ hotelSearchResult \in FoundHotels
  /\ hotelData = NoSearch
  /\ prompt = "none"
  /\ history = <<>>
  /\ FlightOff
  /\ ChatOff
  /\ VariantOff
  /\ input \in FlightResponses
  /\ dest = <<>>
  /\ once = [threw |-> FALSE, offers |-> <<>>]
  /\ twice = <<>>
  /\ links = <<>>
  /\ step = "response"

\* parseFlightOffers applied to the answer of a flight search
ParseOffers ==
  /\ step = "response"
  /\ once' = parseFlightOffers(input)
  /\ step' = "parsed"
  /\ UNCHANGED <<turnVars, flightVars, uiVars, variantVars, input, dest, twice, links>>

\* step 7 of searchHotels applied to the first hotel of a search answer
CollectHotel ==
  /\ hotelData = NoSearch
  /\ hotelData' = FromSearch(client, FirstHotel(hotelSearchResult.data))
  /\ UNCHANGED <<conversation, pc, snap, reply, extractedData, visibleText, aiResponse,
                 status, modelStatus, env, client, calls, hotelSearchResult, prompt,
                 history, textVars, flightVars, uiVars, variantVars>>

OffersNext == ParseOffers \/ CollectHotel

SpecOffers == OffersInit /\ [][OffersNext]_vars

\* C21: the price of every clean offer is the hundredth nearest to
\* units + nanos / 1e9, a missing units or nanos counting as 0; units 120 with
\* nanos 500000000 give 120.50
C21_PriceIsRoundedSum ==
  (step = "parsed" /\ ~once.threw /\ input.shape = "list") =>
    \A i \in DOMAIN once.offers :
      LET units == OrZero(input.data[i].units)
          nanos == OrZero(input.data[i].nanos)
          over == (once.offers[i].price - units * 100) * NanosPerCent - nanos
      IN /\ over <= NanosPerCent \div 2
         /\ -over <= NanosPerCent \div 2
         /\ (units = 120 /\ nanos = 500000000) => once.offers[i].price = 12050

C21_Witness ==
  /\ step = "parsed"
  /\ input.shape = "list"
  /\ Len(once.offers) = 1
  /\ input.data[1].units = <<120>>
  /\ input.data[1].nanos = <<500000000>>
  /\ once.offers[1].price = 12050

\* ---------------------------------------------------------------- the two clients
\* The methods of one BookingComAPI or one BookingComFlightsAPI instance,
\* called in any order.  The two classes share no state, so a run uses one
\* instance: the hotel client while no flight call was made, and the reverse.
MaxHotelCalls == 3

MaxFlightCalls == 4

\* the queries a caller passes to searchAirport, by role
AirportQueries(isOrigin) == IF isOrigin THEN {"New York", "Boston"} ELSE {"London"}

\* the id the provider lists for the airport of a place
AirportId(query) ==
  IF query = "New York" THEN "JFK.AIRPORT"
  ELSE IF query = "Boston" THEN "BOS.AIRPORT"
  ELSE "LHR.AIRPORT"

\* the elements of data of an airport answer: a city, the airport of the
\* place, an airport entry without id, null
AirportItems(query) ==
  {[shape |-> "object", type |-> "CITY", id |-> "city"],
   [shape |-> "object", type |-> "AIRPORT", id |-> AirportId(query)],
   [shape |-> "object", type |-> "AIRPORT", id |-> Undefined],
   [shape |-> "null", type |-> Undefined, id |-> Undefined]}

AirportBodies(query) ==
  {NullBody, NoData, [shape |-> "list", data |-> <<>>]}
    \cup {[shape |-> "list", data |-> <<r>>] : r \in AirportItems(query)}
    \cup {[shape |-> "list",
           data |-> <<[shape |-> "object", type |-> "CITY", id |-> "city"],
                      [shape |-> "object", type |-> "AIRPORT", id |-> AirportId(query)]>>],
          [shape |-> "list",
           data |-> <<[shape |-> "object", type |-> "AIRPORT", id |-> AirportId(query)],
                      [shape |-> "object", type |-> "AIRPORT", id |-> "ALT.AIRPORT"]>>]}

\* data.find(item => item.type === "AIRPORT"); reading type of null throws
RECURSIVE find(_)
find(items) ==
  IF items = <<>> THEN [threw |-> FALSE, found |-> FALSE, id |-> Undefined]
  ELSE IF Head(items).shape = "null"
  THEN [threw |-> TRUE, found |-> FALSE, id |-> Undefined]
  ELSE IF Head(items).type = "AIRPORT"
  THEN [threw |-> FALSE, found |-> TRUE, id |-> Head(items).id]
  ELSE find(Tail(items))

\* a bug that stores the airport found under both roles
searchAirportWritesBothIds(cl, isOrigin, airportDataDict) ==
  IF airportDataDict.shape = "list" /\ Len(airportDataDict.data) > 0
  THEN LET firstAirportResult == find(airportDataDict.data)
       IN  IF firstAirportResult.threw THEN [threw |-> TRUE, ret |-> FALSE, client |-> cl]
           ELSE IF firstAirportResult.found
           THEN [threw |-> FALSE, ret |-> TRUE,
                 client |-> [cl EXCEPT !.ORIGIN_ID = firstAirportResult.id,
                                       !.DESTINATION_ID = firstAirportResult.id]]
           ELSE [threw |-> FALSE, ret |-> FALSE, client |-> cl]
  ELSE [threw |-> FALSE, ret |-> FALSE, client |-> cl]

\* BookingComFlightsAPI.searchAirport on the answer of its request: whether
\* it threw, what it returned, the instance fields afterwards
searchAirport(cl, isOrigin, airportDataDict) ==
  IF airportDataDict.shape = "list" /\ Len(airportDataDict.data) > 0
  THEN LET firstAirportResult == find(airportDataDict.data)
       IN  IF firstAirportResult.threw THEN [threw |-> TRUE, ret |-> FALSE, client |-> cl]
           ELSE IF firstAirportResult.found
           THEN [threw |-> FALSE, ret |-> TRUE,
                 client |-> IF isOrigin
                            THEN [cl EXCEPT !.ORIGIN_ID = firstAirportResult.id]
                            ELSE [cl EXCEPT !.DESTINATION_ID = firstAirportResult.id]]
           ELSE [threw |-> FALSE, ret |-> FALSE, client |-> cl]
  ELSE [threw |-> FALSE, ret |-> FALSE, client |-> cl]

\* a bug that tests the origin id only
FlightIdMissingOriginOnly(cl) == ~Truthy(cl.ORIGIN_ID)

\* !this.ORIGIN_ID || !this.DESTINATION_ID
FlightIdMissing(cl) == ~Truthy(cl.ORIGIN_ID) \/ ~Truthy(cl.DESTINATION_ID)

\* the answers of a flight search: as FlightResponses, with one list
FlightSearchBodies ==
  {NullBody, NoData, NoList,
   [shape |-> "list",
    data |-> <<[shape |-> "object", units |-> <<120>>, nanos |-> <<500000000>>,
                currencyCode |-> "EUR"]>>]}

\* one entry of the log of a flight client: request is FALSE when the method
\* returned without calling _makeApiCall; fromId and toId are the instance
\* fields when the method returned
FlightCall(method, role, query, request, returned, cl) ==
  [method |-> method, role |-> role, query |-> query, request |-> request,
   returned |-> returned, fromId |-> cl.ORIGIN_ID, toId |-> cl.DESTINATION_ID]

\* one entry of the log of a hotel client whose method returned without a
\* request
NoRequest(endpoint) ==
  [endpoint |-> endpoint, hotel_id |-> Undefined, transport |-> "none",
   shape |-> "null", count |-> 0, returned |-> "notfound"]

ClientsInit ==
  /\ TurnInit
  /\ HotelOff
  /\ TextOff
  /\ FlightOff
  /\ ChatOff
  /\ VariantOff

\* flightClient.searchAirport(query, isOrigin)
SearchAirport ==
  /\ calls = <<>>
  /\ Len(flightCalls) < MaxFlightCalls
  /\ \E isOrigin \in BOOLEAN : \E query \in AirportQueries(isOrigin) :
     \E transport \in Transports : \E body \in Answers(transport, AirportBodies(query)) :
       LET api == _makeApiCall(transport, body)
           out == searchAirport(flightClient, isOrigin, api.value)
           threw == api.threw \/ out.threw
       IN  /\ flightClient' = IF threw THEN flightClient ELSE out.client
           /\ flightCalls' =
                Append(flightCalls,
                       FlightCall("searchAirport",
                                  IF isOrigin THEN "origin" ELSE "destination", query, TRUE,
                                  Returned(threw, out.ret), flightClient'))
           /\ airportAnswer' = api.value
  /\ UNCHANGED <<turnVars, textVars, variantVars, uiVars>>

\* flightClient.searchFlights()
SearchFlights ==
  /\ calls = <<>>
  /\ Len(flightCalls) < MaxFlightCalls
  /\ IF FlightIdMissing(flightClient)
     THEN flightCalls' =
            Append(flightCalls,
                   FlightCall("searchFlights", "both", EmptyStr, FALSE, "notfound",
                              flightClient))
     ELSE \E transport \in Transports : \E body \in Answers(transport, FlightSearchBodies) :
            LET api == _makeApiCall(transport, body)
                found == ~api.threw /\ api.value.shape = "list"
            IN  flightCalls' =
                  Append(flightCalls,
                         FlightCall("searchFlights", "both", EmptyStr, TRUE,
                                    Returned(api.threw, found), flightClient))
  /\ UNCHANGED <<turnVars, textVars, variantVars, uiVars, flightClient, airportAnswer>>

\* apiClient.searchDestination()
ClientSearchDestination ==
  /\ flightCalls = <<>>
  /\ Len(calls) < MaxHotelCalls
  /\ \E transport \in Transports : \E body \in Answers(transport, ResolveBodies) :
       LET api == _makeApiCall(transport, body)
           out == searchDestination(client, api.value)
           threw == api.threw \/ out.threw
       IN  /\ calls' = Append(calls, Call("searchDestination", Undefined, transport, body,
                                          Returned(threw, out.ret)))
           /\ client' = IF threw THEN client ELSE out.client
  /\ UNCHANGED <<conversation, pc, snap, reply, extractedData, visibleText, aiResponse,
                 status, modelStatus, env, hotelSearchResult, hotelData, prompt, history,
                 textVars, flightVars, uiVars, variantVars>>

\* apiClient.getFilters()
ClientGetFilters ==
  /\ flightCalls = <<>>
  /\ Len(calls) < MaxHotelCalls
  /\ IF IdMissing(client)
     THEN calls' = Append(calls, NoRequest("getFilter"))
     ELSE \E transport \in Transports : \E body \in Answers(transport, {NoData, NoList}) :
            LET api == _makeApiCall(transport, body)
                dict == DictOrNull(api.value)
            IN  calls' = Append(calls, Call("getFilter", Undefined, transport, body,
                                            Returned(api.threw, dict # NullBody)))
  /\ UNCHANGED <<conversation, pc, snap, reply, extractedData, visibleText, aiResponse,
                 status, modelStatus, env, client, hotelSearchResult, hotelData, prompt,
                 history, textVars, flightVars, uiVars, variantVars>>

\* apiClient.searchHotels()
ClientSearchHotels ==
  /\ flightCalls = <<>>
  /\ Len(calls) < MaxHotelCalls
  /\ IF IdMissing(client)
     THEN calls' = Append(calls, NoRequest("searchHotels"))
     ELSE \E transport \in Transports : \E body \in Answers(transport, SearchBodies) :
            LET api == _makeApiCall(transport, body)
                dict == DictOrNull(api.value)
            IN  calls' = Append(calls, Call("searchHotels", Undefined, transport, body,
                                            Returned(api.threw, dict # NullBody)))
  /\ UNCHANGED <<conversation, pc, snap, reply, extractedData, visibleText, aiResponse,
                 status, modelStatus, env, client, hotelSearchResult, hotelData, prompt,
                 history, textVars, flightVars, uiVars, variantVars>>

ClientsNext ==
  \/ SearchAirport
  \/ SearchFlights
  \/ ClientSearchDestination
  \/ ClientGetFilters
  \/ ClientSearchHotels

SpecClients == ClientsInit /\ [][ClientsNext]_vars

\* the index of the last searchAirport call for a role before call i, 0 when
\* there is none
LastAirportCall(i, role) ==
  LET before == {j \in 1..(i - 1) : /\ flightCalls[j].method = "searchAirport"
                                    /\ flightCalls[j].role = role}
  IN IF before = {} THEN 0 ELSE CHOOSE j \in before : \A k \in before : k <= j

\* C22: a flight search request is sent only when the most recent resolve
\* call of each role succeeded, and with the id of the place that call asked
\* for; a failed resolve is never followed by a search on the id an earlier
\* resolve left in the client.  (A hotel client resolves the one query it
\* was constructed with, so its id can belong to no other query.)
C22_NoSearchOnStaleId ==
  \A i \in DOMAIN flightCalls :
       (flightCalls[i].method = "searchFlights" /\ flightCalls[i].request) =>
         \A role \in {"origin", "destination"} :
           LET j == LastAirportCall(i, role)
           IN  /\ j > 0
               /\ flightCalls[j].returned = "found"
               /\ AirportId(flightCalls[j].query) =
                    IF role = "origin" THEN flightCalls[i].fromId ELSE flightCalls[i].toId

\* C29: a search that finds an id missing returns not-found without a
\* request, and a search request is sent only after a successful resolve of
\* the same client for every id it needs: the destination for the hotel
\* search, the origin and the destination airport for the flight search.
C29_SearchNeedsResolvedIds ==
  /\ \A i \in DOMAIN flightCalls :
       flightCalls[i].method = "searchFlights" =>
         IF ~Truthy(flightCalls[i].fromId) \/ ~Truthy(flightCalls[i].toId)
         THEN ~flightCalls[i].request /\ flightCalls[i].returned = "notfound"
         ELSE /\ flightCalls[i].request
              /\ \A role \in {"origin", "destination"} :
                   \E j \in 1..(i - 1) : /\ flightCalls[j].method = "searchAirport"
                                         /\ flightCalls[j].role = role
                                         /\ flightCalls[j].returned = "found"
  /\ \A i \in DOMAIN calls :
       calls[i].endpoint = "searchHotels" =>
         IF calls[i].transport = "none"
         THEN calls[i].returned = "notfound"
         ELSE \E j \in 1..(i - 1) : /\ calls[j].endpoint = "searchDestination"
                                    /\ calls[j].returned = "found"
  /\ (calls # <<>> /\ calls[Len(calls)].endpoint = "searchHotels") =>
       (IdMissing(client) <=> calls[Len(calls)].transport = "none")

\* C29 witness: a flight search that returned without a request although
\* the origin airport had been resolved, then, the destination airport
\* resolved as well, a flight search that sent its request.
C29_Witness ==
  /\ Len(flightCalls) = 4
  /\ flightCalls[1].method = "searchAirport" /\ flightCalls[1].returned = "found"
  /\ flightCalls[2].method = "searchFlights" /\ ~flightCalls[2].request
  /\ flightCalls[3].method = "searchAirport" /\ flightCalls[3].returned = "found"
  /\ flightCalls[4].method = "searchFlights" /\ flightCalls[4].request

\* ---------------------------------------------------------------- gateway variant
\* The handler that calls the AI gateway and fills the destination column by
\* keyword.  A reply is a sequence of words.
LowerWord(w) == IF w \in {"Destination", "DESTINATION"} THEN "destination" ELSE w

\* aiResponse.toLowerCase()
LowerWords(ws) == [i \in DOMAIN ws |-> LowerWord(ws[i])]

\* lowerResponse.includes("destination")
MentionsDestination(lowerResponse) ==
  \E i \in DOMAIN lowerResponse : lowerResponse[i] = "destination"

\* messages.filter(m => m.role === "user").pop(): its content in a sequence,
\* <<>> when there is no user message
LastUserMsg(ms) ==
  LET users == SelectSeq(ms, LAMBDA m : m.role = "user")
  IN IF users = <<>> THEN <<>> ELSE <<users[Len(users)].content>>

\* a bug that fills the destination whether or not the row holds one
GatewayUpdatesUnguarded(row, lowerResponse, ms) ==
  IF MentionsDestination(lowerResponse) /\ LastUserMsg(ms) # <<>>
  THEN [destination |-> LastUserMsg(ms)[1]]
  ELSE [destination |-> Undefined]

\* updates of the keyword extraction (Undefined = key absent)
GatewayUpdates(row, lowerResponse, ms) ==
  IF ~Truthy(row.destination) /\ MentionsDestination(lowerResponse) /\ LastUserMsg(ms) # <<>>
  THEN [destination |-> LastUserMsg(ms)[1]]
  ELSE [destination |-> Undefined]

\* the message lists of a request
GatewayMessages ==
  {<<>>,
   <<[role |-> "user", content |-> "Rome"]>>,
   <<[role |-> "user", content |-> "Rome"], [role |-> "assistant", content |-> "ok"],
     [role |-> "user", content |-> "in May"]>>,
   <<[role |-> "assistant", content |-> "ok"]>>,
   <<[role |-> "user", content |-> EmptyStr]>>}

\* the contents the gateway model answers with
GatewayReplies ==
  {<<"hello">>, <<"which", "destination">>, <<"Destination", "noted">>, <<>>}

\* the statuses of a gateway answer that is not ok
GatewayErrors == {429, 402, 500}

GatewayInit ==
  /\ conversation \in {[NewConversation EXCEPT !.destination = v] :
                         v \in {Null, EmptyStr, "Paris"}}
  /\ pc = [t \in Turns |-> "idle"]
  /\ snap = [t \in Turns |-> NewConversation]
  /\ reply = [t \in Turns |-> <<>>]
  /\ extractedData = [t \in Turns |-> EmptyObject]
  /\ visibleText = [t \in Turns |-> <<>>]
  /\ aiResponse = [t \in Turns |-> <<>>]
  /\ status = [t \in Turns |-> 0]
  /\ modelStatus = [t \in Turns |-> 0]
  /\ env \in [{"LOVABLE_API_KEY"} -> BOOLEAN]
  /\ client = NewClient
  /\ calls = <<>>
  /\ hotelSearchResult = NullBody
  /\ hotelData = NoSearch
  /\ prompt = "none"
  /\ history = <<>>
  /\ TextOff
  /\ FlightOff
  /\ ChatOff
  /\ messages \in GatewayMessages
  /\ searchArgs = NoArgs
  /\ suggestions = <<>>

\* the request arrives: without the gateway key the handler throws;
\* otherwise the row is read and the gateway called
GatewayBegin(t) ==
  /\ pc[t] = "idle"
  /\ IF ~env["LOVABLE_API_KEY"]
     THEN /\ status' = [status EXCEPT ![t] = 500]
          /\ pc' = [pc EXCEPT ![t] = "done"]
          /\ UNCHANGED snap
     ELSE /\ snap' = [snap EXCEPT ![t] = conversation]
          /\ pc' = [pc EXCEPT ![t] = "model"]
          /\ UNCHANGED status
  /\ UNCHANGED <<conversation, reply, extractedData, visibleText, aiResponse, modelStatus,
                 hotelVars, textVars, flightVars, uiVars, variantVars>>

\* the gateway answers with a status that is not ok: 429 and 402 are passed
\* on, anything else is thrown and answered with 500
GatewayFails(t) ==
  /\ pc[t] = "model"
  /\ \E code \in GatewayErrors :
       /\ modelStatus' = [modelStatus EXCEPT ![t] = code]
       /\ status' = [status EXCEPT ![t] = IF code \in {429, 402} THEN code ELSE 500]
  /\ pc' = [pc EXCEPT ![t] = "done"]
  /\ UNCHANGED <<conversation, snap, reply, extractedData, visibleText, aiResponse,
                 hotelVars, textVars, flightVars, uiVars, variantVars>>

\* the gateway answers 2xx without a choice or with a content that is not
\* a string: reading it throws, the catch answers 500
GatewayUnreadable(t) ==
  /\ pc[t] = "model"
  /\ modelStatus' = [modelStatus EXCEPT ![t] = 200]
  /\ status' = [status EXCEPT ![t] = 500]
  /\ pc' = [pc EXCEPT ![t] = "done"]
  /\ UNCHANGED <<conversation, snap, reply, extractedData, visibleText, aiResponse,
                 hotelVars, textVars, flightVars, uiVars, variantVars>>

\* the gateway answers: the keyword extraction, the update of the row when
\* updates has a key, the response
GatewayAnswers(t) ==
  /\ pc[t] = "model"
  /\ \E content \in GatewayReplies :
       LET updates == GatewayUpdates(snap[t], LowerWords(content), messages)
       IN  /\ reply' = [reply EXCEPT ![t] = content]
           /\ aiResponse' = [aiResponse EXCEPT ![t] = content]
           /\ conversation' =
                IF updates.destination # Undefined
                THEN [conversation EXCEPT !.destination = updates.destination]
                ELSE conversation
  /\ modelStatus' = [modelStatus EXCEPT ![t] = 200]
  /\ status' = [status EXCEPT ![t] = 200]
  /\ pc' = [pc EXCEPT ![t] = "done"]
  /\ UNCHANGED <<snap, extractedData, visibleText, hotelVars, textVars, flightVars, uiVars,
                 variantVars>>

\* the next request of the conversation
GatewayNextMessage(t) ==
  /\ pc[t] = "done"
  /\ \E ms \in GatewayMessages : messages' = ms
  /\ pc' = [pc EXCEPT ![t] = "idle"]
  /\ reply' = [reply EXCEPT ![t] = <<>>]
  /\ aiResponse' = [aiResponse EXCEPT ![t] = <<>>]
  /\ status' = [status EXCEPT ![t] = 0]
  /\ modelStatus' = [modelStatus EXCEPT ![t] = 0]
  /\ UNCHANGED <<conversation, snap, extractedData, visibleText, hotelVars, textVars,
                 flightVars, uiVars, searchArgs, suggestions>>

GatewayNext ==
  \/ GatewayBegin(1)
  \/ GatewayFails(1)
  \/ GatewayUnreadable(1)
  \/ GatewayAnswers(1)
  \/ GatewayNextMessage(1)

SpecGateway == GatewayInit /\ [][GatewayNext]_vars

\* C23: in the keyword mode no step changes a destination the row already
\* holds.
C23_KeywordFillsUnsetOnly ==
  [][Truthy(conversation.destination) => conversation'.destination = conversation.destination]_vars

\* C23 witness: a turn answered on a row with a destination, the reply
\* naming the keyword and the request carrying a user message with other
\* content; the row is as it was read.
C23_Witness ==
  /\ pc[1] = "done"
  /\ status[1] = 200
  /\ Truthy(snap[1].destination)
  /\ MentionsDestination(LowerWords(reply[1]))
  /\ LastUserMsg(messages) # <<>>
  /\ LastUserMsg(messages)[1] # snap[1].destination
  /\ conversation = snap[1]

\* ---------------------------------------------------------------- more claims on the turn
\* C24: the stage is a function of the stored record and one of the ten
\* stages, and a turn that holds the model key goes from the read of the
\* record to the model call (by way of the hotel search at Ready) whatever
\* the stored values are.
C24_StageSelectionIsTotal ==
  [][(pc[1] = "idle" /\ pc'[1] # "idle" /\ env["OPENAI_API_KEY"]) =>
       /\ SelectStage(conversation) \in {StageNames[i] : i \in DOMAIN StageNames} \cup {"Ready"}
       /\ snap'[1] = conversation
       /\ pc'[1] = IF SelectStage(conversation) = "Ready" THEN "hotel" ELSE "model"]_vars

\* ---------------------------------------------------------------- first-transition variant
\* The handler that searches a hotel on the turn that completes the date
\* flexibility, and stores the hotel as a suggestion.
MaxFirstKeys == 2

\* the fields its extraction format declares
FirstFields ==
  {"origin", "destination", "weather_preference", "activities", "budget",
   "budget_allocation", "date_start", "date_end", "date_flexibility"}

\* the keys a preferences blob or a decoded object is read at
FirstKeys == FirstFields \cup {"dates", "confirmed"}

FirstEmptyObject == [k \in FirstKeys |-> Undefined]

FirstNewConversation ==
  [destination |-> Null, budget |-> Null, start_date |-> Null,
   preferences |-> FirstEmptyObject]

\* Object.keys(o).length
FirstKeyCount(o) == Cardinality({k \in FirstKeys : o[k] # Undefined})

\* the preference keys written on a truthy extracted value
FirstTruthyKeys ==
  {"origin", "weather_preference", "activities", "budget_allocation", "date_start",
   "date_end", "date_flexibility"}

\* newPreferences = { ...conversationData } with the extracted keys applied
FirstNewPreferences(conversationData, d) ==
  [k \in FirstKeys |->
     IF k \in FirstTruthyKeys /\ Truthy(d[k]) THEN d[k] ELSE conversationData[k]]

\* the guard of the update
FirstShouldUpdate(updates, newPreferences, conversationData) ==
  \/ updates.destination # Undefined
  \/ updates.budget # Undefined
  \/ FirstKeyCount(newPreferences) > FirstKeyCount(conversationData)

\* parseFloat of a stored budget
parseFloat(v) == IF v \in {"3000", "#3000"} THEN "#3000" ELSE "NaN"

\* totalBudget * (accomPercent / 100)
AccomBudget(totalBudget, accomPercent) ==
  IF totalBudget = "#3000" /\ accomPercent = "#40" THEN "#1200" ELSE "NaN"

\* the arguments of searchHotels as the justCompleted block works them out
\* from newPreferences; reading accommodation of a missing allocation throws
\* before the call
SearchArgs(c, updates, newPreferences) ==
  IF newPreferences["budget_allocation"] \in {Undefined, Null}
  THEN [shape |-> "threw", city |-> Undefined, startDate |-> Undefined,
        endDate |-> Undefined, accomBudget |-> Undefined]
  ELSE [shape |-> "called",
        city |-> newPreferences["destination"],
        startDate |-> newPreferences["date_start"],
        endDate |-> newPreferences["date_end"],
        accomBudget |-> AccomBudget(parseFloat(newPreferences["budget"]),
                                    Accommodation(newPreferences["budget_allocation"]))]

\* what searchHotels hands back: null, a hotel with a room photo, a hotel
\* whose room photo stayed at its default, with and without hotel photos
FirstHotelResults ==
  {[shape |-> "null", hotel_name |-> EmptyStr, price |-> "#0", room_photo_url |-> EmptyStr,
    hotel_photo_url |-> <<>>],
   [shape |-> "result", hotel_name |-> "Hotel 1", price |-> "#120",
    room_photo_url |-> "room.jpg", hotel_photo_url |-> <<"hotel.jpg">>],
   [shape |-> "result", hotel_name |-> "Hotel 1", price |-> "#120",
    room_photo_url |-> "N/A", hotel_photo_url |-> <<"hotel.jpg">>],
   [shape |-> "result", hotel_name |-> "N/A", price |-> "#0",
    room_photo_url |-> "N/A", hotel_photo_url |-> <<>>]}

\* the row inserted into travel_suggestions
SuggestionToInsert(found) ==
  [type |-> "hotel", title |-> found.hotel_name, price |-> found.price, rating |-> 0,
   image_url |-> IF Truthy(found.room_photo_url) THEN found.room_photo_url
                 ELSE IF found.hotel_photo_url # <<>> THEN found.hotel_photo_url[1]
                 ELSE Undefined]

\* the values a decoded field can hold
FirstValues(k) ==
  CASE k = "budget" -> {"#3000"}
    [] k = "budget_allocation" -> {"v", "{accommodation:40}"}
    [] k = "destination" -> {"Paris"}
    [] k = "date_start" -> {"2025-07-01"}
    [] k = "date_end" -> {"2025-07-08"}
    [] OTHER -> {"v"}

\* the decoded objects with at most MaxFirstKeys of the declared fields
FirstExtractions ==
  UNION {{[k \in FirstKeys |-> IF k \in S THEN f[k] ELSE Undefined] :
            f \in {g \in [S -> UNION {FirstValues(k) : k \in S}] :
                     \A k \in S : g[k] \in FirstValues(k)}} :
         S \in {T \in SUBSET FirstFields : Cardinality(T) <= MaxFirstKeys}}

\* a reply with a decodable block and a reply without block
FirstReplies == {<<"a", "E", "J", "N">>, <<"a">>}

FirstInit ==
  /\ conversation = FirstNewConversation
  /\ pc = [t \in Turns |-> "idle"]
  /\ snap = [t \in Turns |-> FirstNewConversation]
  /\ reply = [t \in Turns |-> <<>>]
  /\ extractedData = [t \in Turns |-> FirstEmptyObject]
  /\ visibleText = [t \in Turns |-> <<>>]
  /\ aiResponse = [t \in Turns |-> <<>>]
  /\ status = [t \in Turns |-> 0]
  /\ modelStatus = [t \in Turns |-> 0]
  /\ env \in {[OPENAI_API_KEY |-> k, BOOKING_API_HOST |-> TRUE, BOOKING_API_KEY |-> TRUE] :
                k \in BOOLEAN}
  /\ client = NewClient
  /\ calls = <<>>
  /\ hotelSearchResult = NullBody
  /\ hotelData = NoSearch
  /\ prompt = "none"
  /\ history = <<>>
  /\ TextOff
  /\ FlightOff
  /\ ChatOff
  /\ VariantOff

\* the request arrives: without the model key the handler throws at once;
\* otherwise the row is read, the prompt built, the model called
FirstBegin(t) ==
  /\ pc[t] = "idle"
  /\ IF ~env["OPENAI_API_KEY"]
     THEN /\ pc' = [pc EXCEPT ![t] = "done"]
          /\ status' = [status EXCEPT ![t] = 500]
          /\ UNCHANGED snap
     ELSE /\ snap' = [snap EXCEPT ![t] = conversation]
          /\ pc' = [pc EXCEPT ![t] = "model"]
          /\ UNCHANGED status
  /\ searchArgs' = NoArgs
  /\ UNCHANGED <<conversation, reply, extractedData, visibleText, aiResponse,
                 modelStatus, hotelVars, textVars, flightVars, uiVars, messages, suggestions>>

\* the model answers r, whose JSON document (if any) decodes to d: extraction,
\* enrichment, merge, the hotel search when the flexibility was just given
\* (hotelData is what it returned, the row is inserted unless the insert
\* fails), conditional update, response
FirstModelReplies(t) ==
  /\ pc[t] = "model"
  /\ \E r \in FirstReplies :
     \E d \in (IF ParseOk(r) THEN FirstExtractions ELSE {FirstEmptyObject}) :
       LET c == snap[t]
           data == IF ParseOk(r) THEN d ELSE FirstEmptyObject
           stripped == StripExtract(r)
           updates == Updates(data)
           newPreferences == FirstNewPreferences(c.preferences, data)
           justCompleted == ~Truthy(hasFlexibility(c))
                              /\ Truthy(newPreferences["date_flexibility"])
       IN  /\ reply' = [reply EXCEPT ![t] = r]
           /\ extractedData' = [extractedData EXCEPT ![t] = data]
           /\ visibleText' = [visibleText EXCEPT ![t] = stripped]
           /\ aiResponse' =
                [aiResponse EXCEPT ![t] =
                   IF AtItinerary(c)
                   THEN parseRecommendationsWithLinks(stripped, AsText(hasDestination(c)))
                   ELSE stripped]
           /\ searchArgs' = IF justCompleted THEN SearchArgs(c, updates, newPreferences)
                            ELSE NoArgs
           /\ IF searchArgs'.shape = "called"
              THEN \E found \in FirstHotelResults : \E stored \in BOOLEAN :
                     /\ hotelData' = found
                     /\ suggestions' =
                          IF found.shape = "result" /\ stored
                          THEN Append(suggestions, SuggestionToInsert(found))
                          ELSE suggestions
              ELSE UNCHANGED <<hotelData, suggestions>>
           /\ conversation' =
                IF FirstShouldUpdate(updates, newPreferences, c.preferences)
                THEN UpdateRow(conversation, updates, newPreferences)
                ELSE conversation
  /\ status' = [status EXCEPT ![t] = 200]
  /\ modelStatus' = [modelStatus EXCEPT ![t] = 200]
  /\ pc' = [pc EXCEPT ![t] = "done"]
  /\ UNCHANGED <<snap, env, client, calls, hotelSearchResult, prompt, history,
                 textVars, flightVars, uiVars, messages>>

FirstNext ==
  \/ FirstBegin(1)
  \/ ModelFails(1)
  \/ ReplyUnreadable(1)
  \/ FirstModelReplies(1)
  \/ NextMessage(1)

SpecFirst == FirstInit /\ [][FirstNext]_vars

\* the declared fields that carry the slot a stage asks for
FirstAsked(stage) ==
  CASE stage = "NeedOrigin" -> {"origin"}
    [] stage = "NeedDestination" -> {"destination"}
    [] stage = "NeedWeather" -> {"weather_preference"}
    [] stage = "NeedActivities" -> {"activities"}
    [] stage = "NeedBudget" -> {"budget"}
    [] stage = "NeedBudgetAllocation" -> {"budget_allocation"}
    [] stage = "NeedDates" -> {"date_start", "date_end"}
    [] stage = "NeedFlexibility" -> {"date_flexibility"}
    [] OTHER -> {}

\* C25: a turn that is answered with an extraction holding a value for every
\* declared field of the slot its stage asks for leaves the stored record at
\* another stage; no stage before Ready is kept by such a turn.
C25_AskedSlotAdvancesStage ==
  [][(/\ pc[1] = "model"
      /\ pc'[1] = "done"
      /\ status'[1] = 200
      /\ SelectStage(snap[1]) # "Ready"
      /\ \A k \in FirstAsked(SelectStage(snap[1])) : Truthy(extractedData'[1][k]))
       => SelectStage(conversation') # SelectStage(snap[1])]_vars

\* C28: when the hotel search of the first-transition variant is called, the
\* city is the destination the stored record holds, the dates are its start
\* and end date, and the price ceiling is its budget times the accommodation
\* percentage over 100; none of them is undefined or NaN.
C28_SearchArgsFromConversation ==
  (pc[1] = "done" /\ searchArgs.shape = "called") =>
    /\ Truthy(searchArgs.city)
    /\ searchArgs.city = hasDestination(conversation)
    /\ searchArgs.startDate = conversation.preferences["date_start"]
    /\ searchArgs.endDate = conversation.preferences["date_end"]
    /\ searchArgs.accomBudget # "NaN"
    /\ searchArgs.accomBudget =
         AccomBudget(parseFloat(hasBudget(conversation)),
                     Accommodation(conversation.preferences["budget_allocation"]))

\* C26: the reply of a turn whose stage is not Ready is returned as it left
\* the extraction step, without map links.
C26_EnrichOnlyAtReady ==
  (Replied(1) /\ SelectStage(snap[1]) # "Ready") => aiResponse[1] = visibleText[1]

\* ---------------------------------------------------------------- stage templates
\* the slots the instruction block of a stage tells the model to ask about
\* (its "ask" lines)
Asks(stage) ==
  CASE stage = "NeedOrigin" -> {"origin"}
    [] stage = "NeedDestination" -> {"weather_preference", "destination"}
    [] stage = "NeedWeather" -> {"activities"}
    [] stage = "NeedActivities" -> {"activities"}
    [] stage = "NeedBudget" -> {"budget", "budget_allocation"}
    [] stage = "NeedBudgetAllocation" -> {"budget_allocation"}
    [] stage = "NeedDates" -> {"dates", "date_flexibility"}
    [] stage = "NeedFlexibility" -> {"date_flexibility"}
    [] stage = "NeedConfirmation" -> {"confirmed"}
    [] OTHER -> {}

\* the place of a stage in the chain
StageIndex(stage) == CHOOSE i \in DOMAIN StageNames : StageNames[i] = stage

\* C27: the instruction block of the stage a turn is at asks about the slot
\* of that stage and about no other slot; in particular about no slot of a
\* later stage.
C27_TemplateAsksOwnSlot ==
  (pc[1] = "model" /\ SelectStage(snap[1]) # "Ready") =>
    LET i == StageIndex(SelectStage(snap[1]))
    IN  /\ Asks(StageNames[i]) = {SlotOrder[i]}
        /\ \A j \in DOMAIN SlotOrder : j > i => SlotOrder[j] \notin Asks(StageNames[i])

\* C30: the filter step, whether its request succeeds, fails or is not sent,
\* hands the same client, the same result so far and the same next step (the
\* hotel search) to the rest of searchHotels; only the request log differs.
C30_FilterNeverBlocks ==
  [][pc[1] = "filter" =>
       /\ pc'[1] = "search"
       /\ client' = client
       /\ hotelData' = hotelData
       /\ hotelSearchResult' = hotelSearchResult]_vars

\* C30 witness: searchHotels has returned a hotel although its filter request
\* was answered with an error.
C30_Witness ==
  /\ pc[1] = "prompt"
  /\ hotelData.shape = "result"
  /\ \E i \in DOMAIN calls : /\ calls[i].endpoint = "getFilter"
                             /\ calls[i].transport # "json"
                             /\ calls[i].returned = "notfound"

\* C31: the detail step is best effort: once the search step has found a
\* first hotel, searchHotels returns that hotel with every field taken from
\* the search step, and with the room photo at its default "N/A" whenever the
\* detail step did not come back with a photo.
C31_DetailIsBestEffort ==
  [][pc[1] = "detail" =>
       LET found == FromSearch(client, FirstHotel(hotelSearchResult.data))
           last == calls'[Len(calls')]
           photo == /\ calls' # calls
                    /\ last.returned = "found"
                    /\ last.shape = "list"
       IN  /\ hotelData'.shape = "result"
           /\ [hotelData' EXCEPT !.room_photo_url = "N/A"] = found
           /\ ~photo => hotelData'.room_photo_url = "N/A"]_vars

\* C32: searchAirport succeeds only on an answer that lists an AIRPORT entry
\* and then stores the id of the first such entry, whatever entries stand
\* before it, under the requested role and leaves the other role's id as it
\* was; on an answer without AIRPORT entry (no list, an empty list, other
\* types only) it does not succeed and leaves both ids as they were.
C32_AirportResolveFrame ==
  (flightCalls # <<>> /\ flightCalls[Len(flightCalls)].method = "searchAirport") =>
    LET i == Len(flightCalls)
        e == flightCalls[i]
        fromBefore == IF i = 1 THEN NewFlightClient.ORIGIN_ID ELSE flightCalls[i - 1].fromId
        toBefore == IF i = 1 THEN NewFlightClient.DESTINATION_ID ELSE flightCalls[i - 1].toId
        items == IF airportAnswer.shape = "list" THEN airportAnswer.data ELSE <<>>
        airports == {k \in DOMAIN items : items[k].type = "AIRPORT"}
    IN  /\ e.returned = "found" =>
              /\ airports # {}
              /\ IF e.role = "origin"
                 THEN e.fromId = items[SetMin(airports)].id /\ e.toId = toBefore
                 ELSE e.toId = items[SetMin(airports)].id /\ e.fromId = fromBefore
        /\ airports = {} =>
              /\ e.returned # "found"
              /\ e.fromId = fromBefore
              /\ e.toId = toBefore

\* C32 witness: with the destination resolved to London's airport, an origin
\* resolve was answered with a city followed by an airport and stored the
\* airport's id.
C32_Witness ==
  /\ Len(flightCalls) >= 2
  /\ flightCalls[Len(flightCalls)].method = "searchAirport"
  /\ flightCalls[Len(flightCalls)].role = "origin"
  /\ flightCalls[Len(flightCalls)].returned = "found"
  /\ airportAnswer.shape = "list"
  /\ Len(airportAnswer.data) = 2
  /\ airportAnswer.data[1].type = "CITY"
  /\ flightCalls[Len(flightCalls)].fromId = "JFK.AIRPORT"
  /\ flightCalls[Len(flightCalls)].toId = "LHR.AIRPORT"

\* the day a date argument names, counted from 2025-06-30 for the calendar
\* dates and from today for the dates worked out from the clock
DayNumber(date) ==
  CASE date = "2025-07-01" -> 1
    [] date = "2025-07-08" -> 8
    [] date = "now+30" -> 30
    [] date = "now+37" -> 37

\* C33: every searchHotels call of the Ready branch is given a departure
\* date strictly after its arrival date, whatever dates value is stored.
C33_DepartureAfterArrival ==
  searchArgs.shape = "called" =>
    DayNumber(searchArgs.startDate) < DayNumber(searchArgs.endDate)

\* C34: a turn whose reply carries a block that decodes to something other
\* than an object (null, a number, a string, an array) answers 200 with the
\* visible reply and leaves the stored record as the turn read it.
C34_NonObjectIsEmptyUpdate ==
  (pc[1] = "done" /\ ParseOk(reply[1]) /\ Document(reply[1]) \in NonObjectDocs) =>
    /\ status[1] = 200
    /\ visibleText[1] = StripExtract(reply[1])
    /\ aiResponse[1] # <<>>
    /\ conversation = snap[1]

\* ---------------------------------------------------------------- chat client
\* ChatInterface with a signed-in user: the input field, the send button, the
\* Enter key and the sendLocationMessage handle the Dashboard calls from
\* handleLocationDetected.  Rendering follows every handler, so the disabled
\* attributes read the loading flag of the current state.
MaxChatMessages == 5

\* what the user may have typed
ChatInputs == {<<" ">>, <<"h", "i">>}

\* the message handleLocationDetected builds ("I've chosen <name>")
LocationMessage == <<"I", "'", "v", "e">>

\* sendMessage(messageText) up to its first await of the function call:
\* without a message or a conversation it returns at once; nothing in it
\* reads loading
sendMessage(messageText, startedBy) ==
  LET userMessage == IF messageText # <<>> THEN messageText ELSE Trim(chat.input)
  IN  IF userMessage = <<>> \/ chat.conversationId = Null
      THEN UNCHANGED <<chat, inFlight>>
      ELSE /\ chat' = [chat EXCEPT !.input = <<>>, !.loading = TRUE,
                                    !.messages = Append(@, "user")]
           /\ inFlight' = Append(inFlight, startedBy)

\* createNewConversation succeeded: the conversation id and the welcome
\* message
CreateNewConversation ==
  /\ chat.conversationId = Null
  /\ chat' = [chat EXCEPT !.conversationId = "c1", !.messages = <<"assistant">>]
  /\ UNCHANGED inFlight
  /\ UNCHANGED <<turnVars, textVars, flightVars, variantVars>>

\* onChange of the input field, which is disabled while loading
TypeInput ==
  /\ ~chat.loading
  /\ \E text \in ChatInputs : chat' = [chat EXCEPT !.input = text]
  /\ UNCHANGED inFlight
  /\ UNCHANGED <<turnVars, textVars, flightVars, variantVars>>

\* onClick of the send button, disabled while loading or without input
ClickSend ==
  /\ ~chat.loading
  /\ Trim(chat.input) # <<>>
  /\ Len(chat.messages) < MaxChatMessages
  /\ sendMessage(<<>>, "button")
  /\ UNCHANGED <<turnVars, textVars, flightVars, variantVars>>

\* handleKeyPress on Enter in the input field, disabled while loading
PressEnter ==
  /\ ~chat.loading
  /\ Len(chat.messages) < MaxChatMessages
  /\ sendMessage(<<>>, "enter")
  /\ UNCHANGED <<turnVars, textVars, flightVars, variantVars>>

\* handleLocationDetected: sendLocationMessage(message, location) through the
\* ref, whatever the chat is doing
LocationDetected ==
  /\ Len(chat.messages) < MaxChatMessages
  /\ sendMessage(LocationMessage, "map")
  /\ UNCHANGED <<turnVars, textVars, flightVars, variantVars>>

\* one awaiting sendMessage goes on: the reply is shown, or the error is
\* toasted; finally setLoading(false)
ReplyArrives ==
  /\ \E i \in DOMAIN inFlight : \E ok \in BOOLEAN :
       /\ inFlight' = SubSeq(inFlight, 1, i - 1) \o SubSeq(inFlight, i + 1, Len(inFlight))
       /\ chat' = [chat EXCEPT !.loading = FALSE,
                               !.messages = IF ok THEN Append(@, "assistant") ELSE @]
  /\ UNCHANGED <<turnVars, textVars, flightVars, variantVars>>

ChatInit ==
  /\ TurnInit
  /\ HotelOff
  /\ TextOff
  /\ FlightOff
  /\ VariantOff
  /\ ChatOff

ChatNext ==
  \/ CreateNewConversation
  \/ TypeInput
  \/ ClickSend
  \/ PressEnter
  \/ LocationDetected
  \/ ReplyArrives

SpecChat == ChatInit /\ [][ChatNext]_vars

\* C35: the chat client never has two sendMessage calls awaiting the
\* travel-chat reply of the conversation at once, whatever started them.
C35_SingleTurnInFlight == Len(inFlight) <= 1

\* C36: when the first-transition variant's hotel search returns a hotel,
\* the turn answers 200 whether or not the insert succeeds, and a stored
\* suggestion has rating 0 and as image the room photo when the detail step
\* recovered one, otherwise the first hotel photo of the search step.
C36_SuggestionImage ==
  [][(pc[1] = "model" /\ pc'[1] = "done" /\ searchArgs'.shape = "called"
        /\ hotelData'.shape = "result") =>
       /\ status'[1] = 200
       /\ \/ suggestions' = suggestions
          \/ /\ Len(suggestions') = Len(suggestions) + 1
             /\ suggestions'[Len(suggestions')].rating = 0
             /\ suggestions'[Len(suggestions')].image_url =
                  IF hotelData'.room_photo_url # "N/A" THEN hotelData'.room_photo_url
                  ELSE IF hotelData'.hotel_photo_url # <<>>
                       THEN hotelData'.hotel_photo_url[1]
                       ELSE Undefined]_vars

\* C37: the currency of a hotel result and of every clean flight offer is the
\* currency the provider gave, and "N/A" when the provider gave none; it is
\* never the currency code of the request.
C37_CurrencyOrPlaceholder ==
  /\ (step = "parsed" /\ ~once.threw /\ input.shape = "list") =>
       \A i \in DOMAIN once.offers :
         once.offers[i].currency =
           IF input.data[i].currencyCode = Undefined THEN "N/A"
           ELSE input.data[i].currencyCode
  /\ hotelData.shape = "result" =>
       hotelData.currency =
         IF hotelSearchResult.data[1].currency = Undefined THEN "N/A"
         ELSE hotelSearchResult.data[1].currency

\* C37 witness: a flight offer and a first hotel, both without a currency,
\* were turned into results.
C37_Witness ==
  /\ step = "parsed"
  /\ input.shape = "list"
  /\ Len(once.offers) = 1
  /\ input.data[1].currencyCode = Undefined
  /\ once.offers[1].currency = "N/A"
  /\ hotelData.shape = "result"
  /\ hotelSearchResult.data[1].currency = Undefined
  /\ hotelData.currency = "N/A"

\* ---------------------------------------------------------------- budget
\* Turns of the edge function whose extraction carries a budget as a number,
\* as a string of digits, as other text, or as 0, with or without a
\* destination.
BudgetValues == {"#3000", "3000", "lots", "#0"}

BudgetExtractions ==
  {[EmptyObject EXCEPT !["budget"] = b, !["destination"] = d] :
     b \in BudgetValues \cup {Undefined}, d \in {Undefined, "v"}}

BudgetNext ==
  \/ ReadConversation(1)
  \/ ModelFails(1)
  \/ ReplyUnreadable(1)
  \/ ModelReplies(1, BudgetExtractions)
  \/ NextMessage(1)

SpecBudget == Init /\ [][BudgetNext]_vars

\* C38: the budget a turn stores is a numeric value, whether the extraction
\* gave it as a number or as a string; a budget that is not numeric is not
\* stored, so the budget slot of the record is empty or numeric.
C38_StoredBudgetIsNumeric ==
  Truthy(hasBudget(conversation)) => parseFloat(hasBudget(conversation)) # "NaN"

\* C39: every place name a link is appended for is the captured name with its
\* whitespace collapsed and cut at the first dash or open parenthesis, and is
\* at least 3 characters long: no link name holds a dash, an open parenthesis
\* or two adjacent whitespace characters, and none is shorter than 3.
C39_LinkNamesNormalized ==
  \A i \in DOMAIN links :
    /\ length(links[i]) > 2
    /\ \A k \in DOMAIN links[i] : links[i][k] \notin {"-", "("}
    /\ \A k \in 1..(Len(links[i]) - 1) :
         ~(IsSpace(links[i][k]) /\ IsSpace(links[i][k + 1]))

====
